---- MODULE Spec2Model ----
(***************************************************************************)
(* FinReg Navigator: the Router's handle_input (upload lifecycle: save,    *)
(* ingestion, query graph, session cleanup) and the query graph            *)
(* Intent -> Retrieve -> {Web | Final} with its four agents.               *)
(***************************************************************************)
EXTENDS Integers, Sequences, FiniteSets, TLC

\* ------------------------------------------------------------------ bounds
MaxId     == 1   \* session identifiers 1..MaxId
MaxCalls  == 2   \* handle_input calls per behaviour
MaxDocs   == 1   \* documents held by one collection
MaxTokens == 3   \* pieces of the classifier's raw output
MaxSessions == 2 \* session identifiers of a multi-session run
MaxTurns  == 3   \* handle_input calls of a multi-turn run
MaxLines  == 2   \* non-blank lines of a page of a document of few pages
MaxPages  == 2   \* pages of a document of few pages
MaxWide   == 4   \* pages of a document of one-line pages
MaxParas  == 4   \* paragraphs of a document handed to the chunker
MaxImages == 2   \* chart images of a document handed to the describer

\* --------------------------------------------------------------- constants
max_results          == 3     \* WebAgent.__init__(max_results=3)
SIMILARITY_THRESHOLD == 70    \* 0.7, in hundredths
K_COMPARE            == 5     \* k in compare mode
K_SINGLE             == 3     \* k in the other modes

None   == 0                   \* a missing / falsy upload_id
Absent == -1                  \* a collection that does not exist
Ids    == 1..MaxId

\* A file name is <<stem, suffix>>.
FileNames == { <<"doc", ".pdf">>, <<"fig", ".PNG">>, <<"notes", ".txt">> }

\* the files argument of a call: nothing, or one file of any type (files of
\* several calls for one upload_id add up in uploads/{id})
FileLists == { {} } \cup { { f } : f \in FileNames }

PDF_TYPES   == { ".pdf" }
IMAGE_TYPES == { ".png", ".jpg", ".jpeg" }

\* str.lower() on the suffixes in use
lower(s) == CASE s = ".PNG" -> ".png"
              [] s = ".PDF" -> ".pdf"
              [] OTHER      -> s

\* datetime.now().strftime("%Y%m%d_%H%M%S"): the identifier is the second
strftime(now) == now

\* ------------------------------------------------------- collection names
REG_TEXT_NAMES  == << <<"finreg_regulatory_text_store">>,  <<"finreg_text_store">> >>
REG_IMAGE_NAMES == << <<"finreg_regulatory_image_store">>, <<"finreg_image_store">> >>

\* Retriever._load_uploaded_collections, lines 76-77
uploaded_text_name(id)  == <<"finreg_uploaded_text_", id>>
uploaded_image_name(id) == <<"finreg_uploaded_image_", id>>

\* Embedder.__init__, lines 40-50: the names of the collections a build fills
text_collection_name(mode, id) ==
  IF mode = "regulatory" THEN <<"finreg_regulatory_text_store">>
                         ELSE <<"finreg_uploaded_text_", id>>
image_collection_name(mode, id) ==
  IF mode = "regulatory" THEN <<"finreg_regulatory_image_store">>
                         ELSE <<"finreg_uploaded_image_", id>>

\* cleanup_names that derives both names from the text prefix
cleanup_names_same_prefix(id) ==
  << <<"finreg_uploaded_text_", id>>, <<"finreg_uploaded_text_", id>> >>

\* Router._cleanup, lines 99-102: the names of the collections deleted
cleanup_names(id) ==
  << <<"finreg_uploaded_text_", id>>, <<"finreg_uploaded_image_", id>> >>

RegNames  == { REG_TEXT_NAMES[i] : i \in 1..2 } \cup { REG_IMAGE_NAMES[i] : i \in 1..2 }
\* the names of the uploaded collections of the sessions of S
UpNamesOf(S) == { uploaded_text_name(i) : i \in S } \cup { uploaded_image_name(i) : i \in S }
UpNames   == UpNamesOf(Ids)
CollNames == RegNames \cup UpNames

\* distances the store reports, in hundredths (around the threshold)
Dists == { 70, 71 }

VARIABLES
  pc,           \* position of the handle_input call in progress
  query,        \* the call's query argument is truthy
  files,        \* the call's files argument (set of file names; {} is falsy)
  upload_id,    \* the call's upload_id after lines 203-204 (None = 0)
  in_try,       \* the call is inside a try/finally that runs _cleanup
  exc,          \* exception in flight or propagated ("none" if none)
  outcome,      \* how the call ended
  calls,        \* handle_input calls started so far
  upload_dirs,  \* ids whose uploads/{id} directory exists
  upload_files, \* files in uploads/{id}
  temp_dirs,    \* ids whose temp/{id} directory exists
  colls,        \* the store: collection name -> document count, or Absent
  state,        \* the GraphState of the query run in progress
  trace,        \* steps the call in progress has executed, in order
  file_results, \* per supported file of the upload, how the ingestion of the
                \* call in progress fared with it
  handed_out,   \* the upload_ids that files-only calls have returned
  response,     \* the raw classifier output under study (IntentSpec)
  chunk_dirs,   \* the chunk files of the text and of the image chunk
                \* directory an index build reads (EmbedSpec, RebuildSpec)
  index,        \* per collection an index build fills, the ids of the chunks
                \* it holds
  build,        \* the Embedder of the index build in progress
  cleaner,      \* the TextCleaner under study: the documents it is handed,
                \* its detected_headers / detected_footers /
                \* globally_frequent_lines, and what clean_document returned
  chunker,      \* the DocumentChunker under study: the cleaned document and
                \* the chunks emitted for it
  describer,    \* the ImageDescriber under study: the images of a document
                \* and the vision calls made for them
  ranking,      \* per collection, the distances of its documents to the
                \* query under study, nearest first (RetrieverSpec)
  env           \* the run's surroundings: the session identifiers in use, the
                \* (ids: what the clock may read; given: what callers pass as
                \* upload_id), the number of calls made, what callers and collaborators
                \* (classifier, store) may hand in, and the index builds that
                \* may be started; fixed from the start

vars == << pc, query, files, upload_id, in_try, exc, outcome, calls,
           upload_dirs, upload_files, temp_dirs, colls, state, trace,
           file_results, handed_out, response,
           chunk_dirs, index, build, cleaner, chunker, describer, ranking, env >>

\* what no step of a handle_input call changes
fixed == << response, ranking, env, chunk_dirs, index, build, cleaner, chunker, describer >>

\* no TextCleaner, DocumentChunker or ImageDescriber is under study
not_constructed == << >>

\* no index build has been started
no_build ==
  [ pc |-> "idle", mode |-> "regulatory", id |-> None, reset |-> FALSE, runs |-> 0,
    todo |-> {}, before_text |-> {}, before_image |-> {} ]

\* the dict handed to graph.invoke: {"query": query, "upload_id": upload_id}
GraphInput(id) ==
  [ upload_id         |-> id,
    mode              |-> "unset",
    need_web          |-> FALSE,
    uploaded_text     |-> << >>,
    regulatory_text   |-> << >>,
    uploaded_images   |-> << >>,
    regulatory_images |-> << >>,
    web_results       |-> << >>,
    images            |-> << >>,
    progress          |-> << >> ]

\* the regulatory store as found at start-up: never built; built under the
\* current names; or built under the old names, the current ones being empty
RegInit ==
  { [ n \in RegNames |-> Absent ],
    [ n \in RegNames |-> IF n \in { REG_TEXT_NAMES[1], REG_IMAGE_NAMES[1] }
                           THEN MaxDocs ELSE Absent ],
    [ n \in RegNames |-> IF n \in { REG_TEXT_NAMES[1], REG_IMAGE_NAMES[1] }
                           THEN 0 ELSE MaxDocs ] }

\* --------------------------------------------------- Router.handle_input
\* OnRaise without the finally clause: the exception leaves handle_input
OnRaise_without_finally(guarded) == "returned"

\* where an exception raised in the body goes: into the finally clause when
\* the body is inside try/finally, out of handle_input otherwise
OnRaise(guarded) == IF guarded THEN "cleanup" ELSE "returned"

\* where a return statement of the body goes
OnReturn(guarded) == IF guarded THEN "cleanup" ELSE "returned"

\* entry of handle_input: lines 203-237 up to the first call made; now is the
\* second the call reads from the clock (two calls may read the same second)
handle_input ==
  /\ pc \in { "idle", "returned" }
  /\ calls < env.max_calls
  /\ calls' = calls + 1
  /\ \E q \in BOOLEAN, fs \in env.file_lists, uid \in { None } \cup env.given, now \in env.ids :
       LET id == IF fs # {} /\ uid = None THEN strftime(now) ELSE uid IN
       /\ query' = q
       /\ files' = fs
       /\ upload_id' = id
       /\ exc' = "none"
       /\ trace' = << >>
       /\ file_results' = << >>
       /\ state' = GraphInput(id)
       /\ IF fs # {}
            THEN /\ pc' = "save"
                 /\ in_try' = FALSE
                 /\ outcome' = "none"
            ELSE IF q /\ id # None
            THEN /\ pc' = "intent"
                 /\ in_try' = TRUE
                 /\ outcome' = "none"
            ELSE IF q
            THEN /\ pc' = "intent"
                 /\ in_try' = FALSE
                 /\ outcome' = "none"
            ELSE /\ pc' = "returned"
                 /\ in_try' = FALSE
                 /\ outcome' = "no_input"
  /\ UNCHANGED << upload_dirs, upload_files, temp_dirs, colls, handed_out, fixed >>

\* Router.save_uploaded_files, called at line 208 (outside any try): the
\* directory is made, then the files are written one by one; a write may fail
save_uploaded_files ==
  /\ pc = "save"
  /\ trace' = Append(trace, "save")
  /\ upload_dirs' = upload_dirs \cup { upload_id }
  /\ \/ /\ upload_files' = [ upload_files EXCEPT ![upload_id] = @ \cup files ]
        /\ pc' = "ingest"
        /\ in_try' = query
        /\ UNCHANGED << exc, outcome >>
     \/ \E written \in SUBSET files :
          /\ written # files
          /\ upload_files' = [ upload_files EXCEPT ![upload_id] = @ \cup written ]
          /\ pc' = "returned"
          /\ exc' = "OSError"
          /\ outcome' = "raised"
          /\ UNCHANGED in_try
  /\ UNCHANGED << query, files, upload_id, calls, temp_dirs, colls, state, file_results, handed_out, fixed >>

\* Router._make_temp_dirs: temp/{id} and its sub-directories
_make_temp_dirs(id) == temp_dirs \cup { id }

\* files of uploads/{id} by type, lines 121-123
pdfs_of(id)   == { f \in upload_files[id] : lower(f[2]) \in PDF_TYPES }
images_of(id) == { f \in upload_files[id] : lower(f[2]) \in IMAGE_TYPES }

\* document counts the build may leave in the two uploaded collections:
\* text chunks come from PDFs only, image chunks from PDFs' charts and
\* tables and from standalone images
TextCounts(id)  == IF pdfs_of(id) = {} THEN { 0 } ELSE 0..MaxDocs
ImageCounts(id) == 0..MaxDocs

\* Embedder(mode="uploaded", upload_id, reset_collections=True).run():
\* both collections are deleted if present, created again and filled
EmbedUploaded(store, id, nText, nImage) ==
  [ store EXCEPT ![text_collection_name("uploaded", id)]  = nText,
                 ![image_collection_name("uploaded", id)] = nImage ]

\* what processing one file can come to.  A PDF (lines 146-161): extract,
\* clean, chunk and describe succeed; PDFExtractor.extract raises (it has no
\* handler and never returns success False); the cleaned text is empty and
\* DocumentChunker.chunk_document raises ValueError.  An image (lines
\* 164-166): described; the vision call fails and describe_single_image
\* returns None; ImageDescriber._resize_image raises on the file.
PdfRaises   == { "extract_raises", "no_text" }
ImageRaises == { "resize_raises" }
Raises      == PdfRaises \cup ImageRaises

supported(id) == pdfs_of(id) \cup images_of(id)

\* the loops of lines 146-166 running to their end: every file processed, an
\* image possibly left without a description
Completed(id) ==
  { res \in [ supported(id) -> { "ok", "no_description" } ] :
      \A f \in pdfs_of(id) : res[f] = "ok" }

\* the loops left by an exception at file f: the PDFs come first, in
\* directory order, then the images; what comes after f is not processed
Interrupted(id) ==
  { res \in [ supported(id) -> { "ok", "unprocessed" } \cup Raises ] :
      \E f \in supported(id) :
         /\ res[f] \in (IF f \in pdfs_of(id) THEN PdfRaises ELSE ImageRaises)
         /\ \A g \in supported(id) \ { f } : res[g] \in { "ok", "unprocessed" }
         /\ f \in images_of(id) => \A g \in pdfs_of(id) : res[g] = "ok"
         /\ f \in pdfs_of(id) => \A g \in images_of(id) : res[g] = "unprocessed" }

\* Router._run_ingestion, called at line 212 (inside try) or 218 (outside)
_run_ingestion ==
  /\ pc = "ingest"
  /\ trace' = Append(trace, "ingest")
  /\ \/ \* line 116: the session directory is missing
        /\ upload_id \notin upload_dirs
        /\ exc' = "FileNotFoundError"
        /\ pc' = OnRaise(in_try)
        /\ outcome' = IF in_try THEN outcome ELSE "raised"
        /\ UNCHANGED << temp_dirs, colls, handed_out, file_results >>
     \/ \* line 129: no PDF and no image
        /\ upload_id \in upload_dirs
        /\ pdfs_of(upload_id) = {} /\ images_of(upload_id) = {}
        /\ exc' = "ValueError"
        /\ pc' = OnRaise(in_try)
        /\ outcome' = IF in_try THEN outcome ELSE "raised"
        /\ UNCHANGED << temp_dirs, colls, handed_out, file_results >>
     \/ \* a collaborator raises while file f is processed (lines 146-166):
        \* nothing catches it, the files after f are not processed and the
        \* Embedder does not run
        /\ upload_id \in upload_dirs
        /\ pdfs_of(upload_id) # {} \/ images_of(upload_id) # {}
        /\ temp_dirs' = _make_temp_dirs(upload_id)
        /\ \E res \in Interrupted(upload_id) : file_results' = res
        /\ exc' = "IngestError"
        /\ pc' = OnRaise(in_try)
        /\ outcome' = IF in_try THEN outcome ELSE "raised"
        /\ UNCHANGED << colls, handed_out >>
     \/ \* the files are processed and embedded (lines 134-179)
        /\ upload_id \in upload_dirs
        /\ pdfs_of(upload_id) # {} \/ images_of(upload_id) # {}
        /\ temp_dirs' = _make_temp_dirs(upload_id)
        /\ \E res \in Completed(upload_id) : file_results' = res
        /\ \E nText \in TextCounts(upload_id), nImage \in ImageCounts(upload_id) :
             colls' = EmbedUploaded(colls, upload_id, nText, nImage)
        /\ IF query
             THEN /\ pc' = "intent"
                  /\ UNCHANGED << outcome, handed_out >>
             ELSE /\ pc' = "returned"
                  /\ outcome' = "ingested"
                  /\ handed_out' = handed_out \cup { upload_id }
        /\ UNCHANGED exc
  /\ UNCHANGED << query, files, upload_id, in_try, calls,
                  upload_dirs, upload_files, state, fixed >>

\* ----------------------------------------------------- IntentAgent.run
\* The classifier's raw output is a sequence of pieces: code fences, think
\* markers, prose, and JSON texts.
\* "FENCE_JSON" is the three-backtick fence followed by json, "FENCE" the bare one
FENCES    == { "FENCE_JSON", "FENCE" }
JsonTexts == { "{mode:regulatory_only}", "{mode:uploaded_only}", "{mode:compare}",
               "{mode:web}", "{mode:summary}", "{mode:null}", "{}", "[]" }
Tokens    == FENCES \cup { "<think>", "</think>", "prose" } \cup JsonTexts

Responses == UNION { [ 1..n -> Tokens ] : n \in 0..MaxTokens }

\* OllamaClient.chat: the content, or the string "LLM_ERROR" on any failure
chat(ok, content) == IF ok THEN content ELSE << "LLM_ERROR" >>

\* re.sub() of line 74: every code fence is removed
strip_fences(raw) == SelectSeq(raw, LAMBDA t : t \notin FENCES)

\* re.sub(r"<think>.*?</think>", "", s, flags=re.DOTALL): each <think> up to
\* the nearest following </think> is removed, leftmost first
RECURSIVE strip_think(_)
strip_think(s) ==
  LET opens == { i \in 1..Len(s) : s[i] = "<think>" } IN
  IF opens = {} THEN s
  ELSE LET i      == CHOOSE x \in opens : \A y \in opens : x <= y
           closes == { j \in (i+1)..Len(s) : s[j] = "</think>" } IN
       IF closes = {} THEN s
       ELSE LET j == CHOOSE x \in closes : \A y \in closes : x <= y IN
            SubSeq(s, 1, i-1) \o strip_think(SubSeq(s, j+1, Len(s)))

clean_response(raw) == strip_think(strip_fences(raw))

\* json.loads followed by result.get("mode", "regulatory_only") inside the
\* try block of lines 85-89; any exception leaves the default mode
parse_mode(clean_res) ==
  IF Len(clean_res) # 1 \/ clean_res[1] \notin JsonTexts
    THEN "regulatory_only"                      \* json.loads raises
  ELSE CASE clean_res[1] = "[]"                     -> "regulatory_only"  \* no .get
         [] clean_res[1] = "{}"                     -> "regulatory_only"  \* default
         [] clean_res[1] = "{mode:null}"            -> "None"
         [] clean_res[1] = "{mode:regulatory_only}" -> "regulatory_only"
         [] clean_res[1] = "{mode:uploaded_only}"   -> "uploaded_only"
         [] clean_res[1] = "{mode:compare}"         -> "compare"
         [] clean_res[1] = "{mode:web}"             -> "web"
         [] OTHER                                   -> "summary"

\* allowed_modes that ignores the upload context
allowed_modes_any_context(has_upload) ==
  { "regulatory_only", "uploaded_only", "compare", "web" }

\* lines 94-97
allowed_modes(has_upload) ==
  IF has_upload THEN { "regulatory_only", "uploaded_only", "compare" }
                ELSE { "regulatory_only", "web" }

\* enforce_allowed that keeps whatever mode was parsed
enforce_allowed_off(mode, has_upload) == mode

\* lines 102-106
enforce_allowed(mode, has_upload) ==
  IF mode \notin allowed_modes(has_upload) THEN "regulatory_only" ELSE mode

\* the state IntentAgent.run returns for a raw output
intent_run(st, raw) ==
  LET has_upload == st.upload_id # None
      mode       == parse_mode(clean_response(raw)) IN
  [ st EXCEPT !.progress = Append(@, "intent"),
              !.need_web = IF mode = "web" THEN TRUE ELSE @,
              !.mode     = enforce_allowed(mode, has_upload) ]

\* raw outputs the classifier gives in a query run: each JSON text bare,
\* fenced, or after a think block, and prose
ClassifierOutputs ==
  { << t >> : t \in JsonTexts } \cup { << "prose" >> }
    \cup { << "FENCE_JSON", t, "FENCE" >> : t \in { "{mode:compare}", "{mode:web}" } }
    \cup { << "<think>", "prose", "</think>", t >> : t \in { "{mode:uploaded_only}" } }

IntentAgent_run ==
  /\ pc = "intent"
  /\ trace' = Append(trace, "intent")
  /\ \E ok \in BOOLEAN, content \in env.outputs :
       state' = intent_run(state, chat(ok, content))
  /\ pc' = "retrieve"
  /\ UNCHANGED << query, files, upload_id, in_try, exc, outcome, calls,
                  upload_dirs, upload_files, temp_dirs, colls, file_results, handed_out, fixed >>

\* --------------------------------------------------------- the Retriever
Min(a, b) == IF a <= b THEN a ELSE b

\* Retriever._load_regulatory_collections for one bucket: the first name, in
\* order, whose collection exists and holds at least one document
load_regulatory(store, names) ==
  IF store[names[1]] > 0 THEN << names[1] >>
  ELSE IF store[names[2]] > 0 THEN << names[2] >>
  ELSE << >>

\* Retriever._load_uploaded_collections for one bucket: the collection of
\* that name if it exists
load_uploaded(store, name) == IF store[name] # Absent THEN << name >> ELSE << >>

\* text_collections that loads the regulatory collection in every mode
text_collections_every_mode(store, mode, id) ==
  [ regulatory |-> load_regulatory(store, REG_TEXT_NAMES),
    uploaded   |-> IF mode \in { "uploaded_only", "compare" }
                     THEN load_uploaded(store, uploaded_text_name(id)) ELSE << >> ]

\* Retriever.__init__, lines 33-40: the collections a mode consults
text_collections(store, mode, id) ==
  [ regulatory |-> IF mode \in { "regulatory_only", "compare" }
                     THEN load_regulatory(store, REG_TEXT_NAMES) ELSE << >>,
    uploaded   |-> IF mode \in { "uploaded_only", "compare" }
                     THEN load_uploaded(store, uploaded_text_name(id)) ELSE << >> ]

image_collections(store, mode, id) ==
  [ regulatory |-> IF mode \in { "regulatory_only", "compare" }
                     THEN load_regulatory(store, REG_IMAGE_NAMES) ELSE << >>,
    uploaded   |-> IF mode \in { "uploaded_only", "compare" }
                     THEN load_uploaded(store, uploaded_image_name(id)) ELSE << >> ]

\* collection.query(n_results=k): the store answers with the distances of
\* its min(k, count) nearest documents, in rank order
Ranked(n) == { d \in [ 1..n -> Dists ] : \A i \in 1..(n-1) : d[i] <= d[i+1] }

store_query(store, cols, k) ==
  IF cols = << >> THEN { << >> } ELSE Ranked(Min(k, store[cols[1]]))

\* the answers of S whose distances the store of this run reports
reported(S) == { d \in S : \A i \in 1..Len(d) : d[i] \in env.dists }

\* Retriever._search, lines 108-119: the hits within the threshold
keep_hit(dist) == dist <= SIMILARITY_THRESHOLD

RECURSIVE _search(_, _)
_search(cols, distances) ==
  IF distances = << >> THEN << >>
  ELSE (IF keep_hit(Head(distances))
          THEN << [ coll |-> cols[1], distance |-> Head(distances) ] >>
          ELSE << >>) \o _search(cols, Tail(distances))

\* k_for that asks for the same number of results in every mode
k_for_every_mode(mode) == K_SINGLE

\* Retriever.search, line 126
k_for(mode) == IF mode = "compare" THEN K_COMPARE ELSE K_SINGLE

\* ------------------------------------------------- RetrievalAgent.run
\* total_hits that counts the text buckets only
total_hits_text_only(results) ==
  Len(results.uploaded_text) + Len(results.regulatory_text)

\* line 33: total_hits = sum(len(v) for v in results.values())
total_hits(results) ==
  Len(results.uploaded_text) + Len(results.regulatory_text)
    + Len(results.uploaded_images) + Len(results.regulatory_images)

\* lines 27-50, given the Retriever's results
retrieval_run(st, results) ==
  [ st EXCEPT !.progress          = Append(Append(@, "searching"),
                                      IF total_hits(results) = 0 THEN "fallback" ELSE "found"),
              !.uploaded_text     = results.uploaded_text,
              !.regulatory_text   = results.regulatory_text,
              !.uploaded_images   = results.uploaded_images,
              !.regulatory_images = results.regulatory_images,
              !.need_web          = (total_hits(results) = 0) ]

\* _route_after_retrieval with the branches swapped
_route_after_retrieval_swapped(st) == IF st.need_web THEN "final" ELSE "web"

\* query_graph._route_after_retrieval
_route_after_retrieval(st) == IF st.need_web THEN "web" ELSE "final"

RetrievalAgent_run ==
  /\ pc = "retrieve"
  /\ trace' = Append(trace, "retrieve")
  /\ \/ \* Retriever.__init__ or the embedding/store collaborator raises
        /\ \/ exc' = "RetrieverError"
           \/ /\ state.mode \in { "uploaded_only", "compare" }
              /\ state.upload_id = None
              /\ exc' = "ValueError"
        /\ pc' = OnRaise(in_try)
        /\ outcome' = IF in_try THEN outcome ELSE "raised"
        /\ UNCHANGED state
     \/ /\ ~ (state.mode \in { "uploaded_only", "compare" } /\ state.upload_id = None)
        /\ LET mode == state.mode
               id   == state.upload_id
               k    == k_for(mode)
               tc   == text_collections(colls, mode, id)
               ic   == image_collections(colls, mode, id) IN
           \E ut \in reported(store_query(colls, tc.uploaded, k)),
              rt \in reported(store_query(colls, tc.regulatory, k)),
              ui \in reported(store_query(colls, ic.uploaded, k)),
              ri \in reported(store_query(colls, ic.regulatory, k)) :
             state' = retrieval_run(state,
                        [ uploaded_text     |-> _search(tc.uploaded, ut),
                          regulatory_text   |-> _search(tc.regulatory, rt),
                          uploaded_images   |-> _search(ic.uploaded, ui),
                          regulatory_images |-> _search(ic.regulatory, ri) ])
        /\ pc' = _route_after_retrieval(state')
        /\ UNCHANGED << exc, outcome >>
  /\ UNCHANGED << query, files, upload_id, in_try, calls,
                  upload_dirs, upload_files, temp_dirs, colls, file_results, handed_out, fixed >>

\* ------------------------------------------------------- WebAgent.run
\* href values of the results the search yields ("" is a missing href)
Hrefs      == { "", "u1" }
WebAnswers == UNION { [ 1..n -> Hrefs ] : n \in 0..max_results }

\* lines 29-38: results appended for the items processed, one per new url
RECURSIVE collect(_, _)
collect(items, seen) ==
  IF items = << >> THEN << >>
  ELSE IF Head(items) = "" \/ Head(items) \in seen
         THEN collect(Tail(items), seen)
         ELSE << Head(items) >> \o collect(Tail(items), seen \cup { Head(items) })

\* line 50, after the try/except: state["web_results"] = results
web_results_after(results, failed) == results

\* WebAgent.run: items are the results yielded before the search ended or
\* failed; failed says the collaborator raised
web_run(st, items, failed) ==
  IF ~ st.need_web THEN st
  ELSE LET results == collect(items, {}) IN
       [ st EXCEPT !.progress    = Append(Append(@, "web_search"),
                                     IF failed THEN "web_failed"
                                     ELSE IF results # << >> THEN "web_count"
                                     ELSE "web_none"),
                   !.web_results = web_results_after(results, failed) ]

WebAgent_run ==
  /\ pc = "web"
  /\ trace' = Append(trace, "web")
  /\ \E items \in WebAnswers, failed \in BOOLEAN :
       state' = web_run(state, items, failed)
  /\ pc' = "final"
  /\ UNCHANGED << query, files, upload_id, in_try, exc, outcome, calls,
                  upload_dirs, upload_files, temp_dirs, colls, file_results, handed_out, fixed >>

\* ----------------------------------------------------- FinalAgent.run
\* embed.py, lines 157-165: the metadata an image chunk is upserted with
\* holds its image_path.  The file of a chunk of a session's collection was
\* written by that session's ingestion, under uploads/{id} (an uploaded
\* image, image_describer.py line 166) or temp/{id}/extracted (a chart or
\* table of an uploaded PDF, router.py lines 141-142): << "session", id >>.
\* The files of the regulatory chunks lie outside both: << "extracted" >>.
metadata(hit) ==
  [ image_path |-> IF Len(hit.coll) = 2 THEN << "session", hit.coll[2] >>
                   ELSE << "extracted" >> ]

\* retriever.py, lines 113-117: a hit is a dict of text, metadata and
\* distance; get of another key gives None, here the empty path
get(hit, key) ==
  CASE key = "metadata" -> metadata(hit)
    [] key = "distance" -> hit.distance
    [] key = "text"     -> hit.coll
    [] OTHER            -> << >>

\* image_path read from the hit's metadata
image_path_of_metadata(hit) == get(hit, "metadata").image_path

\* final_agent.py, lines 91-92: i.get("image_path")
image_path(hit) == get(hit, "image_path")

\* lines 90-99: the paths of the uploaded, then of the regulatory image hits
\* that have one
images(st) ==
  SelectSeq([ k \in 1..Len(st.uploaded_images) |-> image_path(st.uploaded_images[k]) ]
              \o [ k \in 1..Len(st.regulatory_images) |-> image_path(st.regulatory_images[k]) ],
            LAMBDA path : path # << >>)

\* FinalAgent.run, lines 87-99
final_run(st) == [ st EXCEPT !.progress = Append(Append(@, "generating"), "ready"),
                             !.images   = images(st) ]

FinalAgent_run ==
  /\ pc = "final"
  /\ trace' = Append(trace, "final")
  /\ state' = final_run(state)
  /\ pc' = OnReturn(in_try)
  /\ outcome' = IF in_try THEN outcome ELSE "result"
  /\ UNCHANGED << query, files, upload_id, in_try, exc, calls,
                  upload_dirs, upload_files, temp_dirs, colls, file_results, handed_out, fixed >>

\* ------------------------------------------------------ Router._cleanup
\* shutil.rmtree(folder): raises when the folder does not exist
rmtree(dirs, id) == [ raised |-> id \notin dirs, dirs |-> dirs \ { id } ]

\* remove_folder without the exists() test
remove_folder_unchecked(dirs, id) == rmtree(dirs, id)

\* lines 92-93: if folder.exists(): shutil.rmtree(folder)
remove_folder(dirs, id) ==
  IF id \in dirs THEN rmtree(dirs, id) ELSE [ raised |-> FALSE, dirs |-> dirs ]

\* lines 88-94: both session folders are removed if they exist
cleanup_folders(dirs, id) == remove_folder(dirs, id).dirs

\* client.delete_collection(name): raises when there is no such collection
delete_collection(store, name) ==
  [ raised |-> store[name] = Absent, store |-> [ store EXCEPT ![name] = Absent ] ]

\* cleanup_collections that deletes every uploaded collection of the store
cleanup_collections_every_session(store, id) ==
  [ n \in DOMAIN store |-> IF n \in RegNames THEN store[n] ELSE Absent ]

\* lines 96-109: both uploaded collections are deleted, one after the
\* other; a delete that raises is passed over
cleanup_collections(store, id) ==
  LET names == cleanup_names(id)
      first == delete_collection(store, names[1]).store IN
  delete_collection(first, names[2]).store

\* the finally clauses of lines 215-216 and 229-230; an exception raised by
\* _cleanup itself replaces the one in flight and ends the cleanup
_cleanup ==
  /\ pc = "cleanup"
  /\ trace' = Append(trace, "cleanup")
  /\ LET up == remove_folder(upload_dirs, upload_id)
         tm == remove_folder(temp_dirs, upload_id) IN
     IF up.raised \/ tm.raised
       THEN /\ upload_dirs' = IF up.raised THEN upload_dirs ELSE up.dirs
            /\ upload_files' = IF up.raised THEN upload_files
                                ELSE [ upload_files EXCEPT ![upload_id] = {} ]
            /\ exc' = "FileNotFoundError"
            /\ outcome' = "raised"
            /\ UNCHANGED << temp_dirs, colls >>
       ELSE /\ upload_dirs' = cleanup_folders(upload_dirs, upload_id)
            /\ upload_files' = [ upload_files EXCEPT ![upload_id] = {} ]
            /\ temp_dirs' = cleanup_folders(temp_dirs, upload_id)
            /\ colls' = cleanup_collections(colls, upload_id)
            /\ outcome' = IF exc = "none" THEN "result" ELSE "raised"
            /\ UNCHANGED exc
  /\ pc' = "returned"
  /\ UNCHANGED << query, files, upload_id, in_try, calls, state, file_results, handed_out, fixed >>

\* ------------------------------------------------------------ the start
\* the surroundings of a run: any call pattern on the sessions of Ids, the
\* classifier and the store answering anything
Surroundings ==
  [ ids        |-> Ids,
    given      |-> Ids,
    max_calls  |-> MaxCalls,
    file_lists |-> FileLists,
    outputs    |-> ClassifierOutputs,
    dists      |-> Dists,
    builds     |-> {} ]

\* the Router's part of the state after Router() in surroundings e, the
\* regulatory store being r
RouterStart(e, r) ==
  /\ pc = "idle"
  /\ query = FALSE
  /\ files = {}
  /\ upload_id = None
  /\ in_try = FALSE
  /\ exc = "none"
  /\ outcome = "none"
  /\ calls = 0
  /\ upload_dirs = {}
  /\ upload_files = [ i \in e.ids |-> {} ]
  /\ temp_dirs = {}
  /\ colls = [ n \in RegNames \cup UpNamesOf(e.ids) |->
                IF n \in RegNames THEN r[n] ELSE Absent ]
  /\ state = GraphInput(None)
  /\ trace = << >>
  /\ response = << >>
  /\ ranking = << >>
  /\ chunk_dirs = << >>
  /\ index = << >>
  /\ build = no_build
  /\ handed_out = {}
  /\ file_results = << >>
  /\ env = e

\* the state after Router() in surroundings e, the regulatory store being r
Start(e, r) ==
  /\ RouterStart(e, r)
  /\ cleaner = not_constructed
  /\ chunker = not_constructed
  /\ describer = not_constructed

Init == \E r \in RegInit : Start(Surroundings, r)

Next ==
  \/ handle_input
  \/ save_uploaded_files
  \/ _run_ingestion
  \/ IntentAgent_run
  \/ RetrievalAgent_run
  \/ WebAgent_run
  \/ FinalAgent_run
  \/ _cleanup

Spec == Init /\ [][Next]_vars

\* ---------------------------------------------------------------------
\* IntentAgent.run alone, on every raw output of at most MaxTokens pieces,
\* with and without an upload attached
IntentInit ==
  /\ pc = "intent"
  /\ query = TRUE
  /\ files = {}
  /\ upload_id \in { None } \cup Ids
  /\ in_try = (upload_id # None)
  /\ exc = "none"
  /\ outcome = "none"
  /\ calls = 1
  /\ upload_dirs = {}
  /\ upload_files = [ i \in Ids |-> {} ]
  /\ temp_dirs = {}
  /\ colls = [ n \in CollNames |-> Absent ]
  /\ state = GraphInput(upload_id)
  /\ trace = << >>
  /\ response \in Responses
  /\ cleaner = not_constructed
  /\ chunker = not_constructed
  /\ describer = not_constructed
  /\ ranking = << >>
  /\ chunk_dirs = << >>
  /\ index = << >>
  /\ build = no_build
  /\ handed_out = {}
  /\ file_results = << >>
  /\ env = Surroundings

IntentAgent_run_on_response ==
  /\ pc = "intent"
  /\ trace' = Append(trace, "intent")
  /\ \E ok \in BOOLEAN : state' = intent_run(state, chat(ok, response))
  /\ pc' = "retrieve"
  /\ UNCHANGED << query, files, upload_id, in_try, exc, outcome, calls,
                  upload_dirs, upload_files, temp_dirs, colls, file_results, handed_out, fixed >>

IntentNext == IntentAgent_run_on_response

IntentSpec == IntentInit /\ [][IntentNext]_vars

\* ---------------------------------------------------------------------
\* Retriever.search alone, on a store whose answer to the query is known:
\* every mode, with and without a session, collections absent, empty, short
\* and longer than any k
Modes == { "regulatory_only", "uploaded_only", "compare", "web" }

\* n documents within the threshold followed by documents beyond it
Long(n) == [ i \in 1..(K_COMPARE + 1) |-> IF i <= n THEN SIMILARITY_THRESHOLD
                                                     ELSE SIMILARITY_THRESHOLD + 1 ]

a_collection(docs) == [ count |-> Len(docs), docs |-> docs ]
no_collection      == [ count |-> Absent, docs |-> << >> ]

Collections ==
  { no_collection } \cup
  { a_collection(d) : d \in { << >> } \cup Ranked(MaxDocs)
                                   \cup { Long(K_SINGLE + 1), Long(K_COMPARE + 1) } }

\* the text and the image collection of one source
CollectionPairs ==
  { << c, c >> : c \in Collections } \cup
  { << no_collection, a_collection(Long(K_COMPARE + 1)) >>,
    << a_collection(Long(K_SINGLE + 1)), a_collection(<< >>) >> }

\* the store: the regulatory pair under the current names, or under the old
\* names with the current ones empty; one pair per session
StoreOf(reg, legacy, up) ==
  [ n \in RegNames \cup UpNamesOf(DOMAIN up) |->
      IF n \in RegNames
        THEN (IF n = REG_TEXT_NAMES[IF legacy THEN 2 ELSE 1] THEN reg[1]
              ELSE IF n = REG_IMAGE_NAMES[IF legacy THEN 2 ELSE 1] THEN reg[2]
              ELSE IF legacy THEN a_collection(<< >>) ELSE no_collection)
        ELSE (IF n[1] = "finreg_uploaded_text_" THEN up[n[2]][1] ELSE up[n[2]][2]) ]

RetrieverInit ==
  /\ pc = "retrieve"
  /\ query = TRUE
  /\ files = {}
  /\ env = [ Surroundings EXCEPT !.ids = 1..MaxSessions, !.given = 1..MaxSessions ]
  /\ upload_id \in { None } \cup env.ids
  /\ in_try = (upload_id # None)
  /\ exc = "none"
  /\ outcome = "none"
  /\ calls = 1
  /\ upload_dirs = {}
  /\ upload_files = [ i \in env.ids |-> {} ]
  /\ temp_dirs = {}
  /\ \E reg \in CollectionPairs, legacy \in BOOLEAN, up \in [ env.ids -> CollectionPairs ] :
       LET store == StoreOf(reg, legacy, up) IN
       /\ colls   = [ n \in DOMAIN store |-> store[n].count ]
       /\ ranking = [ n \in DOMAIN store |-> store[n].docs ]
  /\ \E mode \in Modes :
       state = [ GraphInput(upload_id) EXCEPT !.mode = mode, !.progress = << "intent" >> ]
  /\ trace = << "intent" >>
  /\ response = << >>
  /\ cleaner = not_constructed
  /\ chunker = not_constructed
  /\ describer = not_constructed
  /\ handed_out = {}
  /\ file_results = << >>
  /\ chunk_dirs = << >>
  /\ index = << >>
  /\ build = no_build

\* collection.query(n_results=k) on a collection with these documents
top_k(docs, k) == SubSeq(docs, 1, Min(k, Len(docs)))

\* what the store answers for the collections consulted
store_answer(cols, k) == IF cols = << >> THEN << >> ELSE top_k(ranking[cols[1]], k)

\* RetrievalAgent.run, the store answering from ranking
RetrievalAgent_run_on_ranking ==
  /\ pc = "retrieve"
  /\ trace' = Append(trace, "retrieve")
  /\ IF state.mode \in { "uploaded_only", "compare" } /\ state.upload_id = None
       THEN /\ exc' = "ValueError"
            /\ pc' = OnRaise(in_try)
            /\ outcome' = IF in_try THEN outcome ELSE "raised"
            /\ UNCHANGED state
       ELSE /\ LET mode == state.mode
                   id   == state.upload_id
                   k    == k_for(mode)
                   tc   == text_collections(colls, mode, id)
                   ic   == image_collections(colls, mode, id) IN
               state' = retrieval_run(state,
                          [ uploaded_text     |-> _search(tc.uploaded, store_answer(tc.uploaded, k)),
                            regulatory_text   |-> _search(tc.regulatory, store_answer(tc.regulatory, k)),
                            uploaded_images   |-> _search(ic.uploaded, store_answer(ic.uploaded, k)),
                            regulatory_images |-> _search(ic.regulatory, store_answer(ic.regulatory, k)) ])
            /\ pc' = _route_after_retrieval(state')
            /\ UNCHANGED << exc, outcome >>
  /\ UNCHANGED << query, files, upload_id, in_try, calls,
                  upload_dirs, upload_files, temp_dirs, colls, file_results, handed_out, fixed >>

RetrieverNext == RetrievalAgent_run_on_ranking

RetrieverSpec == RetrieverInit /\ [][RetrieverNext]_vars

\* ---------------------------------------------------------------------
\* several sessions over several turns: uploads of one PDF, the classifier
\* naming the modes that read uploaded collections, every stored document
\* within the threshold, the regulatory store built under the current names
SessionSurroundings ==
  [ ids        |-> 1..MaxSessions,
    given      |-> 1..MaxSessions,
    max_calls  |-> MaxTurns,
    file_lists |-> { {}, { <<"doc", ".pdf">> } },
    outputs    |-> { << "{mode:compare}" >>, << "{mode:uploaded_only}" >> },
    dists      |-> { SIMILARITY_THRESHOLD },
    builds     |-> {} ]

SessionInit ==
  Start(SessionSurroundings,
        [ n \in RegNames |-> IF n \in { REG_TEXT_NAMES[1], REG_IMAGE_NAMES[1] }
                               THEN MaxDocs ELSE Absent ])

SessionSpec == SessionInit /\ [][Next]_vars

\* ---------------------------------------------------------------------
\* callers that never pass an upload_id: every call with files starts a
\* session of its own, named after the second the clock reads at line 204
ClockSurroundings == [ SessionSurroundings EXCEPT !.given = {} ]

ClockInit ==
  Start(ClockSurroundings,
        [ n \in RegNames |-> IF n \in { REG_TEXT_NAMES[1], REG_IMAGE_NAMES[1] }
                               THEN MaxDocs ELSE Absent ])

ClockSpec == ClockInit /\ [][Next]_vars

\* ------------------------------------------------------------ Embedder
\* A chunk directory holds one chunk file per document; dir[d] is the number
\* of chunks in the file of document d (0: no file, or a file without
\* chunks, which the build skips).
ChunkDocs == { "a", "b" }
ChunkDirs == [ ChunkDocs -> 0..MaxDocs ]

\* the chunk ids of one file: "{pdf_name}_{chunk_counter}"
chunk_ids(d, n) == { << d, i >> : i \in 0..(n - 1) }

\* Embedder._load_json_files: the files of a directory with chunks to embed
load_json_files(dir) == { d \in ChunkDocs : dir[d] > 0 }

\* reset_targets that deletes nothing
reset_targets_none(flag, names) == {}

\* lines 63-74: the collections deleted before the build
reset_targets(flag, names) == IF flag THEN names ELSE {}

\* Embedder.__init__ (lines 40-80) of a build env.builds allows: the names
\* are fixed, the collections are deleted if reset_collections is set, then
\* both are opened, created empty where missing
Embedder_init ==
  /\ build.pc \in { "idle", "done" }
  /\ build.runs < env.max_calls
  /\ \E b \in env.builds, id \in env.ids :
       LET mode    == b[1]
           reset   == b[2]
           names   == { text_collection_name(mode, id), image_collection_name(mode, id) }
           deleted == reset_targets(reset, names) IN
       /\ colls' = [ n \in DOMAIN colls |->
                      IF n \in deleted \/ (n \in names /\ colls[n] = Absent) THEN 0
                      ELSE colls[n] ]
       /\ index' = [ n \in DOMAIN index |-> IF n \in deleted THEN {} ELSE index[n] ]
       /\ build' = [ build EXCEPT !.pc = "text", !.mode = mode, !.reset = reset,
                                   !.id = IF mode = "uploaded" THEN id ELSE None,
                                   !.todo = load_json_files(chunk_dirs.text),
                                   !.before_text = index[text_collection_name(mode, id)],
                                   !.before_image = index[image_collection_name(mode, id)] ]
  /\ UNCHANGED << pc, query, files, upload_id, in_try, exc, outcome, calls, upload_dirs,
                  upload_files, temp_dirs, state, trace, file_results, handed_out,
                  response, chunk_dirs, ranking, env,
                  cleaner, chunker, describer >>

\* collection.upsert(ids=...): the chunks are added, a chunk with an id
\* already present is replaced
upsert(contents, ids) == contents \cup ids

\* Embedder.embed_text_chunks, one pass of the loop of lines 102-133: the
\* chunks of one file go into the text collection; after the last file
\* embed_image_chunks begins
embed_text_chunks ==
  /\ build.pc = "text"
  /\ LET name == text_collection_name(build.mode, build.id) IN
     IF build.todo = {}
       THEN /\ build' = [ build EXCEPT !.pc = "image",
                                       !.todo = load_json_files(chunk_dirs.image) ]
            /\ UNCHANGED << colls, index >>
       ELSE \E d \in build.todo :
              /\ index' = [ index EXCEPT ![name] = upsert(@, chunk_ids(d, chunk_dirs.text[d])) ]
              /\ colls' = [ colls EXCEPT ![name] = Cardinality(index'[name]) ]
              /\ build' = [ build EXCEPT !.todo = @ \ { d } ]
  /\ UNCHANGED << pc, query, files, upload_id, in_try, exc, outcome, calls, upload_dirs,
                  upload_files, temp_dirs, state, trace, file_results, handed_out,
                  response, chunk_dirs, ranking, env,
                  cleaner, chunker, describer >>

\* Embedder.embed_image_chunks, one pass of the loop of lines 143-181; after
\* the last file run() returns
embed_image_chunks ==
  /\ build.pc = "image"
  /\ LET name == image_collection_name(build.mode, build.id) IN
     IF build.todo = {}
       THEN /\ build' = [ build EXCEPT !.pc = "done", !.runs = @ + 1 ]
            /\ UNCHANGED << colls, index >>
       ELSE \E d \in build.todo :
              /\ index' = [ index EXCEPT ![name] = upsert(@, chunk_ids(d, chunk_dirs.image[d])) ]
              /\ colls' = [ colls EXCEPT ![name] = Cardinality(index'[name]) ]
              /\ build' = [ build EXCEPT !.todo = @ \ { d } ]
  /\ UNCHANGED << pc, query, files, upload_id, in_try, exc, outcome, calls, upload_dirs,
                  upload_files, temp_dirs, state, trace, file_results, handed_out,
                  response, chunk_dirs, ranking, env,
                  cleaner, chunker, describer >>

\* the chunks of all files of a chunk directory
ChunksOf(dir) == UNION { chunk_ids(d, dir[d]) : d \in ChunkDocs }

\* what a collection holds before the build: it does not exist, or an
\* earlier build filled it from some chunk directory
Earlier ==
  { [ count |-> Absent, chunks |-> {} ] } \cup
  { [ count |-> Cardinality(ChunksOf(dir)), chunks |-> ChunksOf(dir) ] : dir \in ChunkDirs }

\* the collections a build may fill: the regulatory ones under their current
\* names and the uploaded ones of the sessions of S
BuildNames(S) ==
  { text_collection_name("regulatory", None), image_collection_name("regulatory", None) }
    \cup UNION { { text_collection_name("uploaded", i), image_collection_name("uploaded", i) } :
                  i \in S }

IsTextName(n) == n \in { text_collection_name("regulatory", None) }
                          \cup { text_collection_name("uploaded", i) : i \in Ids }

\* the store holding t in every text and i in every image collection a build
\* may fill, the regulatory collections of the old names missing
StoreBuiltEarlier(e, t, i) ==
  /\ colls = [ n \in RegNames \cup UpNamesOf(e.ids) |->
                IF n \notin BuildNames(e.ids) THEN Absent
                ELSE IF IsTextName(n) THEN t.count ELSE i.count ]
  /\ index = [ n \in BuildNames(e.ids) |-> IF IsTextName(n) THEN t.chunks ELSE i.chunks ]

\* ---------------------------------------------------------------------
\* index builds alone: regulatory and uploaded, with and without reset, run
\* one after the other on the same chunk directories
EmbedSurroundings ==
  [ Surroundings EXCEPT !.builds = { "regulatory", "uploaded" } \X BOOLEAN ]

EmbedInit ==
  /\ pc = "idle"
  /\ query = FALSE
  /\ files = {}
  /\ upload_id = None
  /\ in_try = FALSE
  /\ exc = "none"
  /\ outcome = "none"
  /\ calls = 0
  /\ upload_dirs = {}
  /\ upload_files = [ i \in Ids |-> {} ]
  /\ temp_dirs = {}
  /\ state = GraphInput(None)
  /\ trace = << >>
  /\ response = << >>
  /\ cleaner = not_constructed
  /\ chunker = not_constructed
  /\ describer = not_constructed
  /\ ranking = << >>
  /\ handed_out = {}
  /\ file_results = << >>
  /\ env = EmbedSurroundings
  /\ chunk_dirs \in [ text : ChunkDirs, image : ChunkDirs ]
  /\ \E t \in Earlier, i \in Earlier : StoreBuiltEarlier(env, t, i)
  /\ build = no_build

EmbedNext ==
  \/ Embedder_init
  \/ embed_text_chunks
  \/ embed_image_chunks

EmbedSpec == EmbedInit /\ [][EmbedNext]_vars

\* ---------------------------------------------------------------------
\* one regulatory index build (ingest_all.main: Embedder(mode="regulatory"),
\* no reset) run as a process of its own beside one call of the application
RebuildSurroundings ==
  [ Surroundings EXCEPT !.max_calls  = 1,
                        !.file_lists = { {}, { <<"doc", ".pdf">> } },
                        !.outputs    = { << "{mode:regulatory_only}" >>, << "{mode:compare}" >> },
                        !.dists      = { SIMILARITY_THRESHOLD },
                        !.builds     = { << "regulatory", FALSE >> } ]

RebuildInit ==
  /\ pc = "idle"
  /\ query = FALSE
  /\ files = {}
  /\ upload_id = None
  /\ in_try = FALSE
  /\ exc = "none"
  /\ outcome = "none"
  /\ calls = 0
  /\ upload_dirs = {}
  /\ upload_files = [ i \in Ids |-> {} ]
  /\ temp_dirs = {}
  /\ state = GraphInput(None)
  /\ trace = << >>
  /\ response = << >>
  /\ cleaner = not_constructed
  /\ chunker = not_constructed
  /\ describer = not_constructed
  /\ ranking = << >>
  /\ handed_out = {}
  /\ file_results = << >>
  /\ env = RebuildSurroundings
  /\ chunk_dirs \in [ text : ChunkDirs, image : ChunkDirs ]
  /\ \E t \in Earlier : StoreBuiltEarlier(env, t, t)
  /\ build = no_build

RebuildNext ==
  \/ Next
  \/ EmbedNext

RebuildSpec == RebuildInit /\ [][RebuildNext]_vars

\* ---------------------------------------------------------------------
\* uploads of several files at once: two PDFs, a PDF and an image, an image
\* and an unsupported file
BatchLists ==
  { {},
    { <<"doc", ".pdf">>, <<"scan", ".PDF">> },
    { <<"doc", ".pdf">>, <<"fig", ".PNG">> },
    { <<"fig", ".PNG">>, <<"notes", ".txt">> } }

BatchSurroundings ==
  [ Surroundings EXCEPT !.file_lists = BatchLists,
                        !.outputs    = { << "{mode:compare}" >>, << "prose" >> } ]

IngestInit == \E r \in RegInit : Start(BatchSurroundings, r)

IngestSpec == IngestInit /\ [][Next]_vars

\* ---------------------------------------------------------- TextCleaner
\* A page text is held as the sequence of its lines, each line stripped, as
\* text.split('\n') and line.strip() give them: "" is a blank line and the
\* empty text is << "" >>.
header_threshold == 30   \* 0.3, in hundredths
footer_threshold == 30   \* 0.3
global_threshold == 35   \* 0.35
max_line_length  == 80

\* the lines of the documents under study: running text without digits, a
\* numbered heading, a bare page number, a title with a page count appended,
\* and a markdown image reference
Lines == { "", "Annual Report", "Section 2.1", "7",
           "Annual Report Page 1 of 2", "![](fig.png)" }

len(line) == CASE line = ""                          -> 0
               [] line = "Annual Report"             -> 13
               [] line = "Section 2.1"               -> 11
               [] line = "7"                         -> 1
               [] line = "Annual Report Page 1 of 2" -> 25
               [] line = "![](fig.png)"              -> 12
               \* paragraphs, named by what they are: a five-character
               \* note and longer pieces of running text
               [] line = "Note."                     -> 5
               [] line = "clause"                    -> 198
               [] line = "article"                   -> 398
               [] line = "schedule"                  -> 796

\* line 303: re.sub(r'\s*Page\s+\d+\s+(of|/)\s+\d+\s*$', '', line).strip()
strip_page_suffix(line) ==
  IF line = "Annual Report Page 1 of 2" THEN "Annual Report" ELSE line

\* TextCleaner._is_page_number: all digits, "Page N...", or "N |..."
_is_page_number(line) == line \in { "7" }

\* TextCleaner._is_image_reference: the line starts with ![](...)
_is_image_reference(line) == line \in { "![](fig.png)" }

\* TextCleaner._should_keep_line: the line holds a digit, a month name, a
\* full stop, or one of the quantity words
_should_keep_line(line) ==
  line \in { "Section 2.1", "7", "Annual Report Page 1 of 2", "![](fig.png)" }

\* the elements of s at the indices that satisfy keep, in order
Keep(s, keep(_)) ==
  LET idx == { i \in 1..Len(s) : keep(i) } IN
  [ j \in 1..Cardinality(idx) |->
      s[CHOOSE i \in idx : Cardinality({ m \in idx : m <= i }) = j] ]

\* line 79: [line.strip() for line in text.split('\n') if line.strip()]
non_blank(text) == SelectSeq(text, LAMBDA l : l # "")

\* lines[:3] and lines[-3:] of the non-blank lines
first_lines(text) == LET ls == non_blank(text) IN SubSeq(ls, 1, Min(3, Len(ls)))
last_lines(text)  == LET ls == non_blank(text) IN SubSeq(ls, Len(ls) + 1 - Min(3, Len(ls)), Len(ls))

\* the lines that count for the global counter: those of at most
\* max_line_length characters
short_lines(text) == SelectSeq(non_blank(text), LAMBDA l : len(l) <= max_line_length)

\* a Counter filled over the pages (lines 74-94): the number of times line was
\* added, once for each of its places in part(page)
Counter(pages, part(_), line) ==
  Cardinality(UNION { { << p, i >> : i \in { k \in 1..Len(part(pages[p])) : part(pages[p])[k] = line } }
                      : p \in 1..Len(pages) })

\* int(total_pages * threshold), lines 96-98 (the product in floating point
\* rounds down to the same integer for every page count used here)
min_count(total_pages, threshold) == (total_pages * threshold) \div 100

\* {line for line, count in counter.items() if count >= minimum}
frequent(pages, part(_), minimum) ==
  { line \in Lines \ { "" } :
      /\ Counter(pages, part, line) >= 1
      /\ Counter(pages, part, line) >= minimum }

\* a TextCleaner as __init__ leaves it, lines 45-47
new_TextCleaner ==
  [ detected_headers |-> {}, detected_footers |-> {}, globally_frequent_lines |-> {} ]

\* TextCleaner.analyze_document: the instance after the call.  A document
\* without pages returns at line 68, before anything is assigned.
analyze_document(self, pages) ==
  IF Len(pages) = 0 THEN self
  ELSE [ detected_headers |-> frequent(pages, first_lines, min_count(Len(pages), header_threshold)),
         detected_footers |-> frequent(pages, last_lines, min_count(Len(pages), footer_threshold)),
         globally_frequent_lines |->
           { line \in frequent(pages, short_lines, min_count(Len(pages), global_threshold)) :
               ~ _should_keep_line(line) } ]

\* TextCleaner._remove_image_references on the joined lines: every image
\* reference left in a line is cut out of it
_remove_image_references(lines) ==
  [ i \in 1..Len(lines) |-> IF _is_image_reference(lines[i]) THEN "" ELSE lines[i] ]

\* TextCleaner._normalize_whitespace: of a run of blank lines the first two
\* stay; blank lines at the start and at the end go
_normalize_whitespace(lines) ==
  LET runs == Keep(lines, LAMBDA i : ~ (i >= 3 /\ lines[i] = "" /\ lines[i-1] = "" /\ lines[i-2] = ""))
      full == { i \in 1..Len(runs) : runs[i] # "" }
      kept == Keep(runs, LAMBDA i : \E a \in full, b \in full : a <= i /\ i <= b) IN
  \* '\n'.join(cleaned), read again as a page text
  IF kept = << >> THEN << "" >> ELSE kept

\* the loop of lines 295-324 deciding on the line at Python index i - 1
dropped(self, lines, i) ==
  LET line == strip_page_suffix(lines[i]) IN
  /\ lines[i] # ""
  /\ \/ i - 1 < 3 /\ line \in self.detected_headers
     \/ i - 1 >= Len(lines) - 3 /\ line \in self.detected_footers
     \/ line \in self.globally_frequent_lines
     \/ (i - 1 < 3 \/ i - 1 >= Len(lines) - 3) /\ _is_page_number(line)
     \/ _is_image_reference(line)

\* TextCleaner.clean_page_text
clean_page_text(self, text) ==
  IF non_blank(text) = << >> THEN << "" >>
  ELSE LET stripped == [ i \in 1..Len(text) |-> strip_page_suffix(text[i]) ]
           kept     == Keep(stripped, LAMBDA i : ~ dropped(self, text, i)) IN
       _normalize_whitespace(_remove_image_references(kept))

\* TextCleaner.clean_document: the instance after the call and the cleaned
\* JSON it returns
clean_document(self, pages) ==
  LET after == analyze_document(self, pages) IN
  [ self  |-> after,
    pages |-> [ p \in 1..Len(pages) |->
                  [ text |-> clean_page_text(after, pages[p]), text_original |-> pages[p] ] ],
    cleaning_summary |-> after ]

\* cleaner.clean_document(json_data, ...) on the next document handed to the
\* instance, as in the loop of Router._run_ingestion
TextCleaner_clean_document ==
  /\ cleaner.queue # << >>
  /\ LET json_data == Head(cleaner.queue)
         cleaned   == clean_document(cleaner.self, json_data) IN
     cleaner' = [ cleaner EXCEPT
                    !.self    = cleaned.self,
                    !.queue   = Tail(@),
                    !.results = Append(@, [ json_data |-> json_data,
                                            pages |-> cleaned.pages,
                                            cleaning_summary |-> cleaned.cleaning_summary ]) ]
  /\ UNCHANGED << pc, query, files, upload_id, in_try, exc, outcome, calls,
                  upload_dirs, upload_files, temp_dirs, colls, state, trace,
                  file_results, handed_out, response, chunk_dirs, index, build,
                  ranking, env, chunker, describer >>

\* the page texts of a cleaned JSON
texts_of(pages) == [ p \in 1..Len(pages) |-> pages[p].text ]

\* the cleaned JSON of the only document cleaned so far is handed to the
\* cleaner as a document
clean_again ==
  /\ cleaner.queue = << >>
  /\ Len(cleaner.results) = 1
  /\ ~ cleaner.again
  /\ cleaner' = [ cleaner EXCEPT !.queue = << texts_of(cleaner.results[1].pages) >>,
                                 !.again = TRUE ]
  /\ UNCHANGED << pc, query, files, upload_id, in_try, exc, outcome, calls,
                  upload_dirs, upload_files, temp_dirs, colls, state, trace,
                  file_results, handed_out, response, chunk_dirs, index, build,
                  ranking, env, chunker, describer >>

\* the documents under study.  Few pages, each with up to MaxLines lines of
\* text, with and without blank lines before and after them:
PageTexts ==
  LET Blanks(n) == [ i \in 1..n |-> "" ]
      Bodies    == UNION { [ 1..n -> { "Annual Report", "Section 2.1" } ] : n \in 1..MaxLines } IN
  { << "" >> } \cup
  { Blanks(a) \o b \o Blanks(c) : a \in { 0, 3 }, b \in Bodies, c \in { 0, 3 } }

DeepDocs == UNION { [ 1..n -> PageTexts ] : n \in 1..MaxPages }

\* and many pages of one line each, none included
WideDocs == UNION { [ 1..n -> { << l >> : l \in Lines } ] : n \in 0..MaxWide }

\* a new TextCleaner handed one document, or two one after the other
CleanerInit ==
  /\ RouterStart(Surroundings, [ n \in RegNames |-> Absent ])
  /\ \E q \in { << d >> : d \in DeepDocs \cup WideDocs }
              \cup { << e, d >> : e \in { << << "Annual Report" >> >>,
                                             << << "Section 2.1", "", "Annual Report" >> >> },
                                   d \in WideDocs } :
       cleaner = [ self |-> new_TextCleaner, queue |-> q, results |-> << >>, again |-> FALSE ]
  /\ chunker = not_constructed
  /\ describer = not_constructed

CleanerSpec == CleanerInit /\ [][TextCleaner_clean_document \/ clean_again]_vars

\* ------------------------------------------------------ DocumentChunker
\* A cleaned page text is held as the sequence of its paragraphs, the pieces
\* between "\n\n"; a page without text is << >>.  The paragraphs are texts
\* of which none holds another or a blank line; each is shorter than
\* chunk_size, so that the splitter cuts at "\n\n" only.
chunk_size      == 800   \* DocumentChunker.__init__(chunk_size=800)
chunk_overlap   == 200   \* chunk_overlap=200
MIN_CHUNK_CHARS == 15    \* line 100

\* lines 70-82: the paragraphs of full_text in order, each followed by
\* "\n\n", with the page char_to_page_map gives for its characters
full_text(pages) ==
  LET RECURSIVE from(_)
      from(p) == IF p > Len(pages) THEN << >>
                 ELSE [ i \in 1..Len(pages[p]) |-> [ text |-> pages[p][i], page |-> p ] ] \o from(p + 1)
  IN from(1)

\* the offset in full_text of the first character of paragraph k
start_of(units, k) ==
  LET RECURSIVE upto(_)
      upto(j) == IF j = 0 THEN 0 ELSE upto(j - 1) + len(units[j].text) + 2
  IN upto(k - 1)

\* self.splitter.split_text(full_text), line 90: RecursiveCharacterTextSplitter
\* with separators "\n\n", ... and the separator kept at the start of the
\* piece after it.  The pieces are paragraph 1, "\n\n" + paragraph k for
\* k > 1, and the "\n\n" that ends full_text; they are merged into documents
\* of at most chunk_size characters, a new document starting with the last
\* pieces of the one before as long as these have at most chunk_overlap
\* characters; a document is stripped and dropped if nothing is left.  The
\* result names, per chunk, the first and the last paragraph it was cut from.
split_text(units) ==
  LET n == Len(units)
      piece(d) == IF d > n THEN 2 ELSE len(units[d].text) + (IF d = 1 THEN 0 ELSE 2)
      RECURSIVE total(_)
      total(cur) == IF cur = << >> THEN 0 ELSE piece(Head(cur)) + total(Tail(cur))
      RECURSIVE shed(_, _)
      shed(cur, d) ==
        IF total(cur) > chunk_overlap \/ (total(cur) + piece(d) > chunk_size /\ total(cur) > 0)
          THEN shed(Tail(cur), d) ELSE cur
      RECURSIVE merge(_, _)
      merge(d, cur) ==
        IF d > n + 1 THEN << cur >>
        ELSE IF cur # << >> /\ total(cur) + piece(d) > chunk_size
          THEN << cur >> \o merge(d + 1, Append(shed(cur, d), d))
          ELSE merge(d + 1, Append(cur, d))
      docs  == merge(1, << >>)
      paras(doc) == SelectSeq(doc, LAMBDA d : d <= n)
      kept  == SelectSeq(docs, LAMBDA doc : paras(doc) # << >>)
  IN [ c \in 1..Len(kept) |-> [ first |-> Head(paras(kept[c])),
                                last  |-> paras(kept[c])[Len(paras(kept[c]))] ] ]

\* the text of the chunk cut from paragraphs first..last
chunk_text(units, first, last) == [ k \in 1..(last - first + 1) |-> units[first + k - 1].text ]

\* len(chunk_text)
char_count(text) ==
  LET RECURSIVE upto(_)
      upto(j) == IF j = 0 THEN 0 ELSE upto(j - 1) + len(text[j]) + (IF j = 1 THEN 0 ELSE 2)
  IN upto(Len(text))

\* full_text.find(chunk_text, start): the paragraph at which the first
\* occurrence at or after offset start begins; 0 stands for -1
find(units, text, start) ==
  LET at == { k \in 1..(Len(units) - Len(text) + 1) :
                /\ start_of(units, k) >= start
                /\ \A j \in 1..Len(text) : units[k + j - 1].text = text[j] }
  IN IF at = {} THEN 0 ELSE CHOOSE k \in at : \A m \in at : k <= m

\* the id with the chunk counter left out
chunk_id_without_counter(pdf_name, chunk_counter) == pdf_name

\* line 113: f"{pdf_name}_{chunk_counter}", as the pieces of the string
chunk_id(pdf_name, chunk_counter) ==
  pdf_name \o << "_", << "0", "1", "2", "3", "4", "5", "6", "7", "8", "9" >>[chunk_counter + 1] >>

\* DocumentChunker.chunk_document, lines 64-128: the chunks of the chunked
\* JSON, or the ValueError of line 85.  Field cut is not part of the JSON: it
\* records the paragraphs the splitter cut the chunk from.
chunk_document(pdf_name, pages) ==
  LET units  == full_text(pages)
      chunks == split_text(units)
      RECURSIVE assign(_, _, _)
      assign(c, all_chunks, current_search_start) ==
        IF c > Len(chunks) THEN all_chunks
        ELSE LET text    == chunk_text(units, chunks[c].first, chunks[c].last)
                 forward == find(units, text, current_search_start)
                 start   == IF forward # 0 THEN forward ELSE find(units, text, 0)
                 last    == start + Len(text) - 1
             IN IF char_count(text) < MIN_CHUNK_CHARS \/ start = 0
                  THEN assign(c + 1, all_chunks, current_search_start)
                  ELSE assign(c + 1,
                              Append(all_chunks,
                                     [ id          |-> chunk_id(pdf_name, Len(all_chunks)),
                                       text        |-> text,
                                       start_page  |-> units[start].page,
                                       end_page    |-> units[last].page,
                                       chunk_index |-> Len(all_chunks),
                                       cut         |-> chunks[c] ]),
                              start_of(units, start) + char_count(text))
  IN IF units = << >> THEN [ raised |-> TRUE, chunks |-> << >> ]
     ELSE [ raised |-> FALSE, chunks |-> assign(1, << >>, 0) ]

\* chunker.chunk_document(cleaned_path) on the next document of the upload,
\* as in the loop of Router._run_ingestion: the chunked JSON is written to
\* {pdf_name}_chunks.json in the chunk directory, over a file of that name
DocumentChunker_chunk_document ==
  /\ chunker.queue # << >>
  /\ LET doc  == Head(chunker.queue)
         out  == chunk_document(doc.pdf_name, doc.pages)
         file == doc.pdf_name \o << "_chunks.json" >> IN
     chunker' = [ chunker EXCEPT
                    !.queue      = IF out.raised THEN << >> ELSE Tail(@),
                    !.raised     = out.raised,
                    !.output_dir = IF out.raised THEN @
                                   ELSE { f \in @ : f.file # file }
                                        \cup { [ file |-> file, by |-> Len(chunker.results) + 1,
                                                 chunks |-> out.chunks ] },
                    !.results    = IF out.raised THEN @
                                   ELSE Append(@, [ pdf_name |-> doc.pdf_name, pages |-> doc.pages,
                                                    chunks |-> out.chunks ]) ]
  /\ UNCHANGED << pc, query, files, upload_id, in_try, exc, outcome, calls,
                  upload_dirs, upload_files, temp_dirs, colls, state, trace,
                  file_results, handed_out, response, chunk_dirs, index, build,
                  ranking, env, cleaner, describer >>

\* Embedder.embed_text_chunks on the chunk directory: the chunks of every
\* file are upserted under their ids (by: the document the file was written
\* for, at: the chunk's place in it)
embed_chunk_files ==
  /\ chunker.queue = << >>
  /\ ~ chunker.raised
  /\ ~ chunker.embedded
  /\ chunker' = [ chunker EXCEPT
                    !.embedded = TRUE,
                    !.upserted = UNION { { [ id |-> f.chunks[k].id, by |-> f.by, at |-> k ]
                                           : k \in 1..Len(f.chunks) } : f \in chunker.output_dir } ]
  /\ UNCHANGED << pc, query, files, upload_id, in_try, exc, outcome, calls,
                  upload_dirs, upload_files, temp_dirs, colls, state, trace,
                  file_results, handed_out, response, chunk_dirs, index, build,
                  ranking, env, cleaner, describer >>

\* the cleaned documents of up to n paragraphs: a new page starts before
\* each paragraph of breaks
ChunkerDocs(n) ==
  UNION { { [ p \in 1..(Cardinality(breaks) + 1) |->
                Keep(paras, LAMBDA i : 1 + Cardinality({ k \in breaks : k <= i }) = p) ]
            : breaks \in SUBSET (2..Len(paras)) }
          : paras \in UNION { [ 1..m -> { "Note.", "clause", "article", "schedule" } ] : m \in 1..n } }

\* a new DocumentChunker handed one PDF of an upload (possibly a single
\* page without text), or two PDFs whose names
\* have the same stem (report.pdf, report.PDF) or stems of which one begins
\* with the other (report.pdf, report_0.pdf)
ChunkerInit ==
  /\ RouterStart(Surroundings, [ n \in RegNames |-> Absent ])
  /\ \E q \in { << [ pdf_name |-> << "report" >>, pages |-> d ] >>
                : d \in ChunkerDocs(MaxParas) \cup { << << >> >> } }
              \cup { << [ pdf_name |-> n[1], pages |-> d ], [ pdf_name |-> n[2], pages |-> e ] >> :
                       n \in { << << "report" >>, << "report" >> >>,
                               << << "report" >>, << "report", "_", "0" >> >>,
                               << << "report", "_", "0" >>, << "report" >> >> },
                       d \in ChunkerDocs(MaxPages),
                       e \in { << << "clause" >> >>, << << "article", "article" >>, << "clause" >> >> } } :
       chunker = [ queue |-> q, raised |-> FALSE, output_dir |-> {}, results |-> << >>,
                   embedded |-> FALSE, upserted |-> {} ]
  /\ cleaner = not_constructed
  /\ describer = not_constructed

ChunkerSpec == ChunkerInit /\ [][DocumentChunker_chunk_document \/ embed_chunk_files]_vars

\* ------------------------------------------------------- ImageDescriber
\* The charts of one extracted document are described one after the other.
\* What the vision service answers to a call is not the program's choice:
\* a description, a RateLimitError, or another exception.  The description
\* returned is the text 1; None is no description.
max_attempts == 3   \* for attempt in range(3), line 110

Outcomes == { "described", "RateLimitError", "Exception" }

retries_every_failure(raised) == raised # "described"

\* lines 122-129: except RateLimitError sleeps and goes round the loop again,
\* except Exception breaks
retries(raised) == raised = "RateLimitError"

\* line 123: wait = 6 * (attempt + 1)
wait(attempt) == 6 * (attempt + 1)

\* one pass of the body of "for attempt in range(3)" of _call_vision for the
\* image at hand: the call, and on a rate limit the sleep
ImageDescriber_call_vision ==
  /\ describer # not_constructed
  /\ describer.pc = "_call_vision"
  /\ describer.attempt < max_attempts
  /\ \E answer \in Outcomes :
       describer' =
         IF answer = "described"
         THEN [ describer EXCEPT !.calls = Append(@, answer),
                                 !.description = 1,
                                 !.pc = "describe_document" ]
         ELSE IF retries(answer)
         THEN [ describer EXCEPT !.calls = Append(@, answer),
                                 !.slept = Append(@, wait(describer.attempt)),
                                 !.attempt = @ + 1,
                                 !.pc = IF describer.attempt + 1 < max_attempts
                                        THEN "_call_vision" ELSE "describe_document" ]
         ELSE [ describer EXCEPT !.calls = Append(@, answer),
                                 !.pc = "describe_document" ]
  /\ UNCHANGED << pc, query, files, upload_id, in_try, exc, outcome, calls,
                  upload_dirs, upload_files, temp_dirs, colls, state, trace,
                  file_results, handed_out, response, chunk_dirs, index, build,
                  ranking, env, cleaner, chunker >>

\* lines 233-255 of describe_document: a None is counted as skipped and the
\* loop continues, a description becomes the next image chunk; then the next
\* chart is taken up, or the loop ends
ImageDescriber_describe_document ==
  /\ describer # not_constructed
  /\ describer.pc = "describe_document"
  /\ LET done == [ image |-> describer.idx, calls |-> describer.calls,
                   slept |-> describer.slept, description |-> describer.description ]
         next == describer.idx + 1 IN
     describer' = [ describer EXCEPT
                      !.log          = Append(@, done),
                      !.skipped      = IF describer.description = None THEN @ + 1 ELSE @,
                      !.image_chunks = IF describer.description = None THEN @
                                       ELSE Append(@, [ image |-> describer.idx,
                                                        chunk_counter |-> Len(@) ]),
                      !.idx          = next,
                      !.attempt      = 0,
                      !.calls        = << >>,
                      !.slept        = << >>,
                      !.description  = None,
                      !.pc           = IF next <= describer.all_charts
                                       THEN "_call_vision" ELSE "saved" ]
  /\ UNCHANGED << pc, query, files, upload_id, in_try, exc, outcome, calls,
                  upload_dirs, upload_files, temp_dirs, colls, state, trace,
                  file_results, handed_out, response, chunk_dirs, index, build,
                  ranking, env, cleaner, chunker >>

\* a new ImageDescriber at the top of describe_document's loop over the
\* charts found for the document
DescriberInit ==
  /\ RouterStart(Surroundings, [ n \in RegNames |-> Absent ])
  /\ cleaner = not_constructed
  /\ chunker = not_constructed
  /\ \E n \in 0..MaxImages :
       describer = [ all_charts |-> n, idx |-> 1, attempt |-> 0, calls |-> << >>,
                     slept |-> << >>, description |-> None, log |-> << >>,
                     image_chunks |-> << >>, skipped |-> 0,
                     pc |-> IF n = 0 THEN "saved" ELSE "_call_vision" ]

DescriberNext == ImageDescriber_call_vision \/ ImageDescriber_describe_document

\* the interpreter runs the loop on: a step that can be taken is taken
DescriberSpec == DescriberInit /\ [][DescriberNext]_vars /\ WF_vars(DescriberNext)

TypeOK ==
  /\ pc \in { "idle", "save", "ingest", "intent", "retrieve", "web", "final",
              "cleanup", "returned" }
  /\ upload_id \in { None } \cup env.ids
  /\ upload_dirs \subseteq env.ids
  /\ temp_dirs \subseteq env.ids
  /\ \A n \in DOMAIN colls : colls[n] \in Absent..MaxDocs

\* =====================================================================
\* Properties
\* =====================================================================
Last(s) == s[Len(s)]

Occurrences(s, x) == Cardinality({ i \in 1..Len(s) : s[i] = x })

\* the query-graph stages the call has executed, in order
QueryStages == SelectSeq(trace, LAMBDA x : x \in { "intent", "retrieve", "web", "final" })

IsPrefix(s, t) == Len(s) <= Len(t) /\ \A i \in 1..Len(s) : s[i] = t[i]

\* the call is files + query and got past saving the files, or is
\* query + upload_id: its body runs inside try/finally
RunsSessionQuery ==
  /\ query
  /\ upload_id # None
  /\ files # {} => Occurrences(trace, "ingest") > 0

\* C1: a handle_input call that runs a query for a session (files + query,
\* or query + upload_id) executes the session cleanup exactly once, as its
\* last step after ingestion and the query stages, whether these returned
\* normally or raised.
C1_CleanupExactlyOnce ==
  /\ Occurrences(trace, "cleanup") <= 1
  /\ Occurrences(trace, "cleanup") = 1 => Last(trace) = "cleanup"
  /\ (pc = "returned" /\ RunsSessionQuery) =>
        /\ Occurrences(trace, "cleanup") = 1
        /\ Last(trace) = "cleanup"

\* a query stage raised in a files + query call and the cleanup still ran
C1_Witness ==
  /\ pc = "returned"
  /\ query /\ files # {}
  /\ exc = "RetrieverError"
  /\ trace = << "save", "ingest", "intent", "retrieve", "cleanup" >>

\* C2: after a handle_input call for a session whose query reached Final or
\* which errored out (saving files, ingestion, a query stage), the session's
\* uploads directory, temp directory and two uploaded collections are gone.
C2_NoLeftovers ==
  (pc = "returned" /\ upload_id # None /\ outcome \in { "result", "raised" }) =>
     /\ upload_id \notin upload_dirs
     /\ upload_id \notin temp_dirs
     /\ colls[uploaded_text_name(upload_id)] = Absent
     /\ colls[uploaded_image_name(upload_id)] = Absent

\* C3: when the Intent stage classified the query as web (need_web is set
\* as Retrieve starts) and Retrieve finishes, the Web stage runs a web
\* search next, whatever Retrieve found.
C3_WebIntentRunsWeb ==
  [][ (pc = "retrieve" /\ state.need_web /\ pc' \in { "web", "final" })
        => (pc' = "web" /\ state'.need_web) ]_vars

\* C4: the mode the Intent stage stores, which the Retrieve stage hands to
\* the Retriever, is never web.
C4_ModeNeverWeb == pc = "retrieve" => state.mode # "web"

\* C5: with no upload_id in the query state, the Intent stage never produces
\* uploaded_only or compare, whatever the classifier outputs.
C5_ModeLegalWithoutUpload ==
  (pc = "retrieve" /\ state.upload_id = None) =>
     state.mode \notin { "uploaded_only", "compare" }

\* the classifier answered compare with no upload attached
C5_Witness ==
  /\ pc = "retrieve"
  /\ state.upload_id = None
  /\ response = << "FENCE_JSON", "{mode:compare}", "FENCE" >>
  /\ state.mode = "regulatory_only"

\* C6: a query run executes Intent, Retrieve, Web if and only if need_web
\* is true when Retrieve finishes, then Final; no stage runs twice and
\* nothing of the graph runs after Final.
C6_StageOrder ==
  /\ \/ IsPrefix(QueryStages, << "intent", "retrieve", "web", "final" >>)
     \/ IsPrefix(QueryStages, << "intent", "retrieve", "final" >>)
  /\ Len(QueryStages) >= 3 => (QueryStages[3] = "web" <=> state.need_web)
  /\ (pc \in { "web", "final" } /\ Last(trace) = "retrieve") =>
        (pc = "web" <=> state.need_web)
  /\ outcome = "result" => Last(QueryStages) = "final"

\* a run that went through all four stages
C6_Witness ==
  /\ pc = "returned"
  /\ outcome = "result"
  /\ QueryStages = << "intent", "retrieve", "web", "final" >>

\* the hits of the four buckets of the query state
BucketHits ==
  Len(state.uploaded_text) + Len(state.regulatory_text)
    + Len(state.uploaded_images) + Len(state.regulatory_images)

\* C7: when Retrieve finishes, need_web is true exactly if the four buckets
\* hold no hit at all; a zero-hit retrieval is no error and leaves a
\* fallback notice as the last entry of the progress log.
C7_NeedWebIffZeroHits ==
  (trace # << >> /\ Last(trace) = "retrieve" /\ exc = "none") =>
     /\ pc \in { "web", "final" }
     /\ state.need_web <=> (BucketHits = 0)
     /\ BucketHits = 0 => Last(state.progress) = "fallback"
     /\ BucketHits > 0 => Last(state.progress) = "found"

\* an uploaded_only retrieval that found nothing within the threshold
C7_Witness ==
  /\ pc = "web"
  /\ Last(trace) = "retrieve"
  /\ state.mode = "uploaded_only"
  /\ colls[uploaded_text_name(state.upload_id)] > 0
  /\ BucketHits = 0
  /\ state.need_web
  /\ Last(state.progress) = "fallback"

\* a JSON text that is an object naming a mode other than regulatory_only
\* which is legal in the upload context
NamesLegalMode(t, has_upload) ==
  \/ has_upload /\ t \in { "{mode:uploaded_only}", "{mode:compare}" }
  \/ ~ has_upload /\ t = "{mode:web}"

\* C8: if the classifier output holds no JSON object naming a mode that is
\* legal for the upload context (malformed text, non-object JSON, missing or
\* null mode, the LLM error string, an illegal or unknown mode), the Intent
\* stage ends without an error and the mode is regulatory_only.
C8_SafeDefault ==
  (pc = "retrieve" /\
     \A i \in 1..Len(response) : ~ NamesLegalMode(response[i], state.upload_id # None)) =>
       /\ state.mode = "regulatory_only"
       /\ exc = "none"

\* a fenced object with a null mode, upload attached
C8_Witness ==
  /\ pc = "retrieve"
  /\ state.upload_id # None
  /\ response = << "FENCE_JSON", "{mode:null}", "FENCE" >>
  /\ state.mode = "regulatory_only"

\* C9: if the web search fails at any point of the Web stage, the stage does
\* not raise, web_results is empty, the failure is the last progress entry
\* and Final runs next.
C9_WebFailureLeavesNoResults ==
  (state.progress # << >> /\ Last(state.progress) = "web_failed") =>
     /\ pc = "final"
     /\ exc = "none"
     /\ state.web_results = << >>

\* C10: when ingestion fails with FileNotFoundError or ValueError, the
\* session cleanup still runs in both call patterns that start an ingestion,
\* and the saved files are removed.
C10_CleanupAfterIngestionError ==
  (pc = "returned" /\ exc \in { "FileNotFoundError", "ValueError" }
     /\ Occurrences(trace, "ingest") > 0 /\ Occurrences(trace, "retrieve") = 0) =>
     /\ Last(trace) = "cleanup"
     /\ upload_id \notin upload_dirs

\* C11: no handle_input call ends by raising to its caller; a failure of
\* ingestion or of a query stage comes back as a result.
C11_NeverPropagates ==
  pc = "returned" => (outcome # "raised" /\ exc = "none")

\* the distances of the hits of a bucket, in order
Distances(bucket) == [ i \in 1..Len(bucket) |-> bucket[i].distance ]

\* the collections the hits of a bucket come from
Sources(bucket) == { bucket[i].coll : i \in 1..Len(bucket) }

\* C12: regulatory collections are consulted only in modes regulatory_only
\* and compare, the session's uploaded collections only in modes
\* uploaded_only and compare; every hit of an uploaded bucket comes from the
\* collection named after the session id given, every hit of a regulatory
\* bucket from a regulatory collection.
C12_ModeSelectsCollections ==
  pc \in { "web", "final" } =>
    /\ state.mode \notin { "regulatory_only", "compare" } =>
          (state.regulatory_text = << >> /\ state.regulatory_images = << >>)
    /\ state.mode \notin { "uploaded_only", "compare" } =>
          (state.uploaded_text = << >> /\ state.uploaded_images = << >>)
    /\ Sources(state.uploaded_text) \subseteq { << "finreg_uploaded_text_", state.upload_id >> }
    /\ Sources(state.uploaded_images) \subseteq { << "finreg_uploaded_image_", state.upload_id >> }
    /\ Sources(state.regulatory_text) \subseteq
          { << "finreg_regulatory_text_store" >>, << "finreg_text_store" >> }
    /\ Sources(state.regulatory_images) \subseteq
          { << "finreg_regulatory_image_store" >>, << "finreg_image_store" >> }

\* an uploaded_only search for session 1 that returns hits while the
\* regulatory store and the collections of session 2 hold documents in reach
C12_Witness ==
  /\ pc = "final"
  /\ state.mode = "uploaded_only"
  /\ state.upload_id = 1
  /\ Len(state.uploaded_text) = K_SINGLE
  /\ state.regulatory_text = << >>
  /\ Len(ranking[<< "finreg_regulatory_text_store" >>]) > 0
  /\ ranking[<< "finreg_regulatory_text_store" >>][1] <= SIMILARITY_THRESHOLD
  /\ Len(ranking[<< "finreg_uploaded_text_", 2 >>]) > 0
  /\ ranking[<< "finreg_uploaded_text_", 2 >>][1] <= SIMILARITY_THRESHOLD

\* the hits expected from a collection list: of the first k documents of the
\* collection's ranking, those at distance 0.7 or less, in rank order
ExpectedDistances(cols) ==
  IF cols = << >> THEN << >>
  ELSE LET docs == ranking[cols[1]]
           k    == IF state.mode = "compare" THEN 5 ELSE 3
           n    == IF Len(docs) < k THEN Len(docs) ELSE k IN
       SelectSeq(SubSeq(docs, 1, n), LAMBDA d : d <= 70)

\* C13: for every consulted collection the hits are exactly those of the
\* store's top-k results (k = 5 in compare mode, 3 otherwise) at distance
\* 0.7 or less, in rank order; nothing farther is returned, and with no
\* result in reach the bucket is empty.
C13_TopKWithinThreshold ==
  pc \in { "web", "final" } =>
    LET tc == text_collections(colls, state.mode, state.upload_id)
        ic == image_collections(colls, state.mode, state.upload_id) IN
    /\ Distances(state.uploaded_text)     = ExpectedDistances(tc.uploaded)
    /\ Distances(state.regulatory_text)   = ExpectedDistances(tc.regulatory)
    /\ Distances(state.uploaded_images)   = ExpectedDistances(ic.uploaded)
    /\ Distances(state.regulatory_images) = ExpectedDistances(ic.regulatory)
    /\ \A b \in { state.uploaded_text, state.regulatory_text,
                   state.uploaded_images, state.regulatory_images } :
          \A i \in 1..Len(b) : b[i].distance <= 70

\* a compare search: five hits from a regulatory collection of six documents
\* in reach, four from an uploaded collection whose fifth and sixth are
\* beyond the threshold, none from an empty image collection
C13_Witness ==
  /\ pc = "final"
  /\ state.mode = "compare"
  /\ state.upload_id # None
  /\ ranking[<< "finreg_regulatory_text_store" >>] = Long(K_COMPARE + 1)
  /\ Len(state.regulatory_text) = 5
  /\ ranking[<< "finreg_uploaded_text_", state.upload_id >>] = Long(K_SINGLE + 1)
  /\ Len(state.uploaded_text) = 4
  /\ colls[<< "finreg_uploaded_image_", state.upload_id >>] = 0
  /\ state.uploaded_images = << >>

\* the step leaves the directories, files and collections of session t alone
SessionUntouched(t) ==
  /\ (t \in upload_dirs') = (t \in upload_dirs)
  /\ (t \in temp_dirs') = (t \in temp_dirs)
  /\ upload_files'[t] = upload_files[t]
  /\ colls'[<< "finreg_uploaded_text_", t >>] = colls[<< "finreg_uploaded_text_", t >>]
  /\ colls'[<< "finreg_uploaded_image_", t >>] = colls[<< "finreg_uploaded_image_", t >>]

\* C14: no step of a handle_input call creates, changes or deletes a
\* regulatory collection; the cleanup of session s removes uploads/s, temp/s
\* and the two uploaded collections of s and leaves every other session's
\* directories, files and collections as they were.
C14_CleanupTouchesOwnSessionOnly ==
  [][ /\ \A n \in { << "finreg_regulatory_text_store" >>, << "finreg_text_store" >>,
                     << "finreg_regulatory_image_store" >>, << "finreg_image_store" >> } :
            colls'[n] = colls[n]
      /\ pc = "cleanup" =>
            /\ \A t \in env.ids \ { upload_id } : SessionUntouched(t)
            /\ upload_id \notin upload_dirs'
            /\ upload_id \notin temp_dirs'
            /\ colls'[<< "finreg_uploaded_text_", upload_id >>] = Absent
            /\ colls'[<< "finreg_uploaded_image_", upload_id >>] = Absent ]_vars

\* session 2 was uploaded, queried and cleaned up while the upload of
\* session 1 and the regulatory store stayed in place
C14_Witness ==
  /\ pc = "returned"
  /\ upload_id = 2
  /\ trace = << "save", "ingest", "intent", "retrieve", "final", "cleanup" >>
  /\ 2 \notin upload_dirs
  /\ colls[<< "finreg_uploaded_text_", 2 >>] = Absent
  /\ 1 \in upload_dirs /\ 1 \in temp_dirs
  /\ upload_files[1] # {}
  /\ colls[<< "finreg_uploaded_text_", 1 >>] > 0
  /\ colls[<< "finreg_regulatory_text_store" >>] > 0

\* the two collections an uploaded-mode build for s fills
BuiltFor(s) == { text_collection_name("uploaded", s), image_collection_name("uploaded", s) }

\* C15: for every session id the index build, the Retriever and the cleanup
\* compute the same text and the same image collection name, different
\* session ids give different names; a completed ingestion for s leaves
\* exactly the collections the Retriever loads for s, and the cleanup of s
\* deletes exactly those.
C15_OneNamingEverywhere ==
  [][ /\ \A s \in env.ids :
            /\ text_collection_name("uploaded", s) = uploaded_text_name(s)
            /\ image_collection_name("uploaded", s) = uploaded_image_name(s)
            /\ cleanup_names(s) = << uploaded_text_name(s), uploaded_image_name(s) >>
            /\ uploaded_text_name(s) # uploaded_image_name(s)
            /\ \A t \in env.ids \ { s } : BuiltFor(s) \cap BuiltFor(t) = {}
      /\ (pc = "ingest" /\ (pc' = "intent" \/ outcome' = "ingested")) =>
            /\ text_collections(colls', "uploaded_only", upload_id).uploaded
                  = << text_collection_name("uploaded", upload_id) >>
            /\ image_collections(colls', "uploaded_only", upload_id).uploaded
                  = << image_collection_name("uploaded", upload_id) >>
            /\ \A n \in DOMAIN colls : n \notin BuiltFor(upload_id) => colls'[n] = colls[n]
      /\ pc = "cleanup" =>
            \A n \in DOMAIN colls :
               colls'[n] = IF n \in BuiltFor(upload_id) THEN Absent ELSE colls[n] ]_vars

\* a query of session 2 gets its hits from the collection built for session
\* 2 while the collections built for session 1 exist
C15_Witness ==
  /\ pc = "final"
  /\ upload_id = 2
  /\ Occurrences(trace, "ingest") = 1
  /\ state.uploaded_text # << >>
  /\ Sources(state.uploaded_text) = { << "finreg_uploaded_text_", 2 >> }
  /\ colls[<< "finreg_uploaded_text_", 1 >>] > 0
  /\ colls[<< "finreg_uploaded_image_", 1 >>] # Absent

\* no directory and no uploaded collection of session id exists
NothingOf(id) ==
  /\ id \notin upload_dirs
  /\ id \notin temp_dirs
  /\ colls[<< "finreg_uploaded_text_", id >>] = Absent
  /\ colls[<< "finreg_uploaded_image_", id >>] = Absent

\* C16: a cleanup for a session of which nothing exists raises no error and
\* changes neither the directories nor the store; after any cleanup, running
\* it once more for the same session raises nothing and changes nothing.
C16_CleanupOfNothingIsNoOp ==
  [][ pc = "cleanup" =>
        /\ NothingOf(upload_id) =>
              /\ exc' = exc
              /\ upload_dirs' = upload_dirs
              /\ temp_dirs' = temp_dirs
              /\ upload_files' = upload_files
              /\ colls' = colls
        /\ ~ remove_folder(upload_dirs', upload_id).raised
        /\ ~ remove_folder(temp_dirs', upload_id).raised
        /\ cleanup_folders(upload_dirs', upload_id) = upload_dirs'
        /\ cleanup_folders(temp_dirs', upload_id) = temp_dirs'
        /\ cleanup_collections(colls', upload_id) = colls' ]_vars

\* the first call is a query for a session that never uploaded anything: its
\* cleanup ran on nothing and the call returned its result
C16_Witness ==
  /\ pc = "returned"
  /\ calls = 1
  /\ files = {}
  /\ upload_id # None
  /\ trace = << "intent", "retrieve", "web", "final", "cleanup" >>
  /\ exc = "none"
  /\ outcome = "result"
  /\ NothingOf(upload_id)

\* C18: what a files-only call created still exists when it returns its
\* upload_id; no query stage of a call with files runs before the ingestion
\* of that call; and every later query call for a returned upload_id gets to
\* the Retrieve stage with both uploaded collections of the session in place.
C18_UploadFirstServesEveryTurn ==
  /\ (pc = "returned" /\ outcome = "ingested") =>
        /\ upload_id \in upload_dirs
        /\ upload_files[upload_id] # {}
        /\ colls[uploaded_text_name(upload_id)] # Absent
        /\ colls[uploaded_image_name(upload_id)] # Absent
  /\ (pc \in { "intent", "retrieve", "web", "final" } /\ files # {}) =>
        Occurrences(trace, "ingest") = 1
  /\ (pc = "retrieve" /\ files = {} /\ upload_id \in handed_out) =>
        /\ colls[uploaded_text_name(upload_id)] # Absent
        /\ colls[uploaded_image_name(upload_id)] # Absent

\* C19: when the processing of one file of an upload of several files fails
\* (the extractor raises, the cleaned text of a PDF is empty, an image gets
\* no description or cannot be read), the ingestion goes on: it raises
\* nothing, no other file is left unprocessed and the index build runs on
\* the chunks of the other files.
C19_FileFailureDoesNotStopIngestion ==
  (/\ trace # << >>
   /\ Last(trace) = "ingest"
   /\ Cardinality(DOMAIN file_results) >= 2
   /\ \E f \in DOMAIN file_results : file_results[f] \notin { "ok", "unprocessed" }) =>
     /\ exc = "none"
     /\ \A g \in DOMAIN file_results : file_results[g] # "unprocessed"
     /\ colls[<< "finreg_uploaded_text_", upload_id >>] # Absent
     /\ colls[<< "finreg_uploaded_image_", upload_id >>] # Absent

\* C17: a build with reset_collections=True leaves the text and the image
\* collection holding exactly the chunks of the chunk files it read, whatever
\* the collections held before; so a second such build from the same files
\* leaves what the first one left.
C17_ResetBuildHoldsCurrentChunks ==
  (build.pc = "done" /\ build.reset) =>
    LET text  == IF build.mode = "regulatory" THEN << "finreg_regulatory_text_store" >>
                 ELSE << "finreg_uploaded_text_", build.id >>
        image == IF build.mode = "regulatory" THEN << "finreg_regulatory_image_store" >>
                 ELSE << "finreg_uploaded_image_", build.id >> IN
    /\ index[text] = ChunksOf(chunk_dirs.text)
    /\ index[image] = ChunksOf(chunk_dirs.image)
    /\ colls[text] = Cardinality(ChunksOf(chunk_dirs.text))
    /\ colls[image] = Cardinality(ChunksOf(chunk_dirs.image))

\* the second build, with reset, of an uploaded index whose text collection
\* held a chunk that is in no chunk file now: the chunk is gone
C17_Witness ==
  /\ build.pc = "done"
  /\ build.reset
  /\ build.mode = "uploaded"
  /\ build.runs = 2
  /\ \E c \in build.before_text : c \notin ChunksOf(chunk_dirs.text)
  /\ ChunksOf(chunk_dirs.text) # {}
  /\ index[<< "finreg_uploaded_text_", build.id >>] = ChunksOf(chunk_dirs.text)

\* what a regulatory collection holds once the build in progress is complete
Complete(before, dir) == (IF build.reset THEN {} ELSE before) \cup ChunksOf(dir)

\* C20: when the Retrieve stage searches the regulatory collections, no
\* regulatory build is in progress, or each regulatory collection holds
\* either what it held before the build or what it holds after it.
C20_NoPartialRegulatoryRead ==
  (pc = "retrieve" /\ state.mode \in { "regulatory_only", "compare" }) =>
     \/ build.pc \in { "idle", "done" }
     \/ build.mode # "regulatory"
     \/ /\ index[<< "finreg_regulatory_text_store" >>]
              \in { build.before_text, Complete(build.before_text, chunk_dirs.text) }
        /\ index[<< "finreg_regulatory_image_store" >>]
              \in { build.before_image, Complete(build.before_image, chunk_dirs.image) }

\* C21: a handle_input call that supplies files and no upload_id gets an
\* identifier different from that of every session an earlier such call
\* started and handed to its caller, so that its save, ingestion and cleanup
\* work on folders and collections of its own
C21_NewSessionGetsOwnId ==
  [][ (pc \in { "idle", "returned" } /\ pc' = "save") => upload_id' \notin handed_out ]_vars

\* the set of the elements of a sequence
Range(s) == { s[i] : i \in 1..Len(s) }

\* C22: in every cleaned document, a line that is a detected header is absent
\* from the cleaned text of every page that has it among its first three
\* non-blank lines, a detected footer from every page that has it among its
\* last three non-blank lines, and text_original is the page's raw text
C22_DetectedLinesRemoved ==
  \A r \in 1..Len(cleaner.results) :
    LET res == cleaner.results[r] IN
    \A p \in 1..Len(res.pages) :
      /\ res.pages[p].text_original = res.json_data[p]
      /\ \A line \in res.cleaning_summary.detected_headers :
           line \in Range(first_lines(res.json_data[p])) => line \notin Range(res.pages[p].text)
      /\ \A line \in res.cleaning_summary.detected_footers :
           line \in Range(last_lines(res.json_data[p])) => line \notin Range(res.pages[p].text)

\* C23: cleaning the cleaned page texts of a document again detects no header
\* and no footer that the first cleaning did not detect, and returns every
\* page text as it was handed in
C23_CleanedTextIsFixedPoint ==
  (cleaner.again /\ Len(cleaner.results) = 2) =>
    LET one == cleaner.results[1]
        two == cleaner.results[2] IN
    /\ two.cleaning_summary.detected_headers \subseteq one.cleaning_summary.detected_headers
    /\ two.cleaning_summary.detected_footers \subseteq one.cleaning_summary.detected_footers
    /\ texts_of(two.pages) = two.json_data

\* the pages that have line among part(page)
PagesWith(pages, part(_), line) ==
  Cardinality({ p \in 1..Len(pages) : line \in Range(part(pages[p])) })

\* C26: for a document of at least one page, the detected headers are exactly
\* the lines for which the pages having them among their first three non-blank
\* lines are at least header_threshold of all pages, and the detected footers
\* likewise with the last three lines and footer_threshold
C26_DetectedIffFrequent ==
  \A r \in 1..Len(cleaner.results) :
    LET res == cleaner.results[r]
        n   == Len(res.json_data) IN
    n >= 1 =>
      /\ res.cleaning_summary.detected_headers =
           { line \in Lines \ { "" } :
               /\ PagesWith(res.json_data, first_lines, line) >= 1
               /\ PagesWith(res.json_data, first_lines, line) * 100 >= header_threshold * n }
      /\ res.cleaning_summary.detected_footers =
           { line \in Lines \ { "" } :
               /\ PagesWith(res.json_data, last_lines, line) >= 1
               /\ PagesWith(res.json_data, last_lines, line) * 100 >= footer_threshold * n }

\* C28: what clean_document returns for a document (the cleaned pages and the
\* recorded headers, footers and globally frequent lines) is what a new
\* TextCleaner returns for it, whatever the instance cleaned before
C28_ResultDependsOnDocumentOnly ==
  \A r \in 1..Len(cleaner.results) :
    LET res   == cleaner.results[r]
        alone == clean_document(new_TextCleaner, res.json_data) IN
    /\ res.pages = alone.pages
    /\ res.cleaning_summary = alone.cleaning_summary

\* C24: every page of a chunked document whose cleaned text is not empty lies
\* within start_page..end_page of at least one of the document's chunks
C24_EveryPageInSomeChunk ==
  \A r \in 1..Len(chunker.results) :
    LET res == chunker.results[r] IN
    \A p \in 1..Len(res.pages) :
      res.pages[p] # << >> =>
        \E c \in 1..Len(res.chunks) :
          res.chunks[c].start_page <= p /\ p <= res.chunks[c].end_page

\* C27: for every emitted chunk, start_page is the page of the first and
\* end_page the page of the last paragraph of the place in full_text the
\* chunk was cut from, and start_page <= end_page
C27_PagesOfThePlaceCutFrom ==
  \A r \in 1..Len(chunker.results) :
    LET res   == chunker.results[r]
        units == full_text(res.pages) IN
    \A c \in 1..Len(res.chunks) :
      /\ res.chunks[c].start_page = units[res.chunks[c].cut.first].page
      /\ res.chunks[c].end_page = units[res.chunks[c].cut.last].page
      /\ res.chunks[c].start_page <= res.chunks[c].end_page

BoundedBackoff(made, slept) ==
  /\ Len(made) <= 3
  /\ \A k \in 1..(Len(made) - 1) : made[k] = "RateLimitError"
  /\ Len(slept) = Cardinality({ k \in 1..Len(made) : made[k] = "RateLimitError" })
  /\ \A k \in 1..Len(slept) : slept[k] = 6 * k

\* every image taken up so far was called for within the bounds; an image
\* for which no call succeeded gave None and no chunk, and the images after
\* it were taken up all the same
DescribedOrSkipped ==
  /\ BoundedBackoff(describer.calls, describer.slept)
  /\ \A i \in 1..Len(describer.log) :
       LET rec == describer.log[i]
           ok  == \E k \in 1..Len(rec.calls) : rec.calls[k] = "described" IN
       /\ rec.image = i
       /\ BoundedBackoff(rec.calls, rec.slept)
       /\ Len(rec.calls) >= 1
       /\ (~ ok) <=> rec.description = None
       /\ ok <=> \E c \in 1..Len(describer.image_chunks) :
                    describer.image_chunks[c].image = i
  /\ describer.skipped + Len(describer.image_chunks) = Len(describer.log)
  /\ describer.pc = "saved" => Len(describer.log) = describer.all_charts

\* C29: for one image the vision service is called at most 3 times, again
\* only after a rate-limit failure and after waiting 6, 12, 18 seconds; any
\* other failure ends the attempts; without a successful attempt the result
\* is None, the caller skips the chunk and goes on with the next image; and
\* the description step terminates
C29_BoundedRetryAndTermination ==
  /\ [] DescribedOrSkipped
  /\ <> (describer.pc = "saved")

\* the first image was rate limited three times and skipped, and the second
\* was described on a later attempt
C29_Witness ==
  /\ describer.pc = "saved"
  /\ Len(describer.log) = 2
  /\ describer.log[1].calls = << "RateLimitError", "RateLimitError", "RateLimitError" >>
  /\ describer.log[1].slept = << 6, 12, 18 >>
  /\ describer.log[2].calls = << "RateLimitError", "described" >>
  /\ describer.skipped = 1
  /\ Len(describer.image_chunks) = 1

\* the file at an image path is there: a session's image files lie in the
\* session's upload folder or in its temp folder
FileExists(path) ==
  Len(path) = 2 => (path[2] \in upload_dirs /\ path[2] \in temp_dirs)

\* C30: when handle_input returns a result, every path in the result's
\* images list is the path of a file that exists, also after the session's
\* folders were removed by _cleanup
C30_ReturnedImagesExist ==
  (pc = "returned" /\ outcome = "result") =>
     \A k \in 1..Len(state.images) : FileExists(state.images[k])

\* a call with files and a query returned its result after _cleanup removed
\* the session's folders, and the result holds image hits of the session's
\* uploaded image collection
C30_Witness ==
  /\ pc = "returned"
  /\ outcome = "result"
  /\ trace # << >>
  /\ Last(trace) = "cleanup"
  /\ state.uploaded_images # << >>
  /\ \A k \in 1..Len(state.uploaded_images) :
       ~ FileExists(metadata(state.uploaded_images[k]).image_path)

====
